---------------------------- MODULE Spec2Model ----------------------------
(***************************************************************************)
(* FGBrowser (nodtOx/FGBrowser): the crawl controller, the listing-page    *)
(* parser with its blacklist filter, and the storage write path.           *)
(*                                                                         *)
(* Conventions.  A Rust String is a tuple of one-character strings         *)
(* (<<"a","b">> is "ab"); characters outside ASCII are named atoms         *)
(* ("ndash" is U+2013).  Option<T> is a tuple of length 0 (None) or 1      *)
(* (Some(x) is <<x>>).  A Vec is a sequence.                               *)
(***************************************************************************)
EXTENDS Integers, Sequences, FiniteSets, TLC

(***************************************************************************)
(* Strings: the str methods the modelled code calls.                       *)
(***************************************************************************)
None == <<>>
Some(x) == <<x>>
IsSome(o) == Len(o) = 1
Unwrap(o) == o[1]

UpperToLower ==
  [c \in {"A","B","C","D","E","F","G","H","I","J","K","L","M","N","O","P","Q",
          "R","S","T","U","V","W","X","Y","Z"} |->
     CASE c = "A" -> "a" [] c = "B" -> "b" [] c = "C" -> "c" [] c = "D" -> "d"
       [] c = "E" -> "e" [] c = "F" -> "f" [] c = "G" -> "g" [] c = "H" -> "h"
       [] c = "I" -> "i" [] c = "J" -> "j" [] c = "K" -> "k" [] c = "L" -> "l"
       [] c = "M" -> "m" [] c = "N" -> "n" [] c = "O" -> "o" [] c = "P" -> "p"
       [] c = "Q" -> "q" [] c = "R" -> "r" [] c = "S" -> "s" [] c = "T" -> "t"
       [] c = "U" -> "u" [] c = "V" -> "v" [] c = "W" -> "w" [] c = "X" -> "x"
       [] c = "Y" -> "y" [] c = "Z" -> "z"]

\* char::to_lowercase on one character
LowerChar(c) == IF c \in DOMAIN UpperToLower THEN UpperToLower[c] ELSE c

\* str::to_lowercase
to_lowercase(s) == [i \in 1..Len(s) |-> LowerChar(s[i])]

\* str::starts_with
starts_with(s, p) == Len(p) <= Len(s) /\ SubSeq(s, 1, Len(p)) = p

\* str::find: the index (from 1) of the first occurrence of p in s, 0 when
\* there is none
find(s, p) ==
  LET hits == {i \in 1..(Len(s) - Len(p) + 1) : SubSeq(s, i, i + Len(p) - 1) = p}
  IN  IF hits = {} THEN 0 ELSE CHOOSE i \in hits : \A j \in hits : i <= j

\* str::contains
contains(s, p) == find(s, p) # 0

\* char::is_whitespace (White_Space): the members that occur in the inputs
WhiteSpace == {" ", "tab", "nl", "nbsp"}

RECURSIVE trim_start(_)
trim_start(s) ==
  IF s # <<>> /\ Head(s) \in WhiteSpace THEN trim_start(Tail(s)) ELSE s

RECURSIVE trim_end(_)
trim_end(s) ==
  IF s # <<>> /\ s[Len(s)] \in WhiteSpace
  THEN trim_end(SubSeq(s, 1, Len(s) - 1)) ELSE s

\* str::trim
trim(s) == trim_end(trim_start(s))

\* str::split(ch): the pieces between the occurrences of the character ch
RECURSIVE split(_, _)
split(s, ch) ==
  LET i == find(s, <<ch>>)
  IN  IF i = 0 THEN <<s>>
      ELSE <<SubSeq(s, 1, i - 1)>> \o split(SubSeq(s, i + 1, Len(s)), ch)

\* str::split_whitespace: the maximal runs of non-whitespace characters
RECURSIVE split_whitespace(_)
split_whitespace(s) ==
  LET t == trim_start(s)
      ends == {i \in 1..Len(t) : t[i] \in WhiteSpace}
      e == IF ends = {} THEN Len(t) + 1
           ELSE CHOOSE i \in ends : \A j \in ends : i <= j
  IN  IF t = <<>> THEN <<>>
      ELSE <<SubSeq(t, 1, e - 1)>> \o split_whitespace(SubSeq(t, e, Len(t)))

(***************************************************************************)
(* SizeNormalizer: commands/utils.rs                                       *)
(***************************************************************************)
Digits == {"0","1","2","3","4","5","6","7","8","9"}

DigitVal(c) ==
  CASE c = "0" -> 0 [] c = "1" -> 1 [] c = "2" -> 2 [] c = "3" -> 3
    [] c = "4" -> 4 [] c = "5" -> 5 [] c = "6" -> 6 [] c = "7" -> 7
    [] c = "8" -> 8 [] c = "9" -> 9

RECURSIVE DigitsVal(_)
DigitsVal(s) ==
  IF s = <<>> THEN 0
  ELSE 10 * DigitsVal(SubSeq(s, 1, Len(s) - 1)) + DigitVal(s[Len(s)])

RECURSIVE Pow10(_)
Pow10(k) == IF k = 0 THEN 1 ELSE 10 * Pow10(k - 1)

AllDigits(s) == \A i \in 1..Len(s) : s[i] \in Digits

\* <f64 as FromStr>::from_str on a decimal literal [+-]digits[.digits] (one
\* of the two digit runs may be empty): Some([neg, num, scale]) for the value
\* (-1)^neg * num / 10^scale, None when the text is no such literal.
parse_f64(s) ==
  LET neg  == s # <<>> /\ Head(s) = "-"
      body == IF s # <<>> /\ Head(s) \in {"-", "+"} THEN Tail(s) ELSE s
      dot  == find(body, <<".">>)
      ip   == IF dot = 0 THEN body ELSE SubSeq(body, 1, dot - 1)
      fp   == IF dot = 0 THEN <<>> ELSE SubSeq(body, dot + 1, Len(body))
  IN  IF AllDigits(ip) /\ AllDigits(fp) /\ Len(ip) + Len(fp) > 0
      THEN Some([neg |-> neg, num |-> DigitsVal(ip \o fp), scale |-> Len(fp)])
      ELSE None

\* `mb as i64` for mb = number * factor: truncation towards zero
TruncMul(f, factor) ==
  LET q == (f.num * factor) \div Pow10(f.scale)
  IN  IF f.neg THEN 0 - q ELSE q

\* convert_to_mb with the decimal factors of the doc comment ("1.1 GB" -> 1100)
convert_to_mb_decimal_units(number, unit_str) ==
  IF ~(\/ starts_with(unit_str, <<"M","B">>)
       \/ starts_with(unit_str, <<"G","B">>)
       \/ starts_with(unit_str, <<"T","B">>)) THEN None
  ELSE IF ~IsSome(number) THEN None
  ELSE IF starts_with(unit_str, <<"M","B">>)
       THEN Some(TruncMul(Unwrap(number), 1))
  ELSE IF starts_with(unit_str, <<"G","B">>)
       THEN Some(TruncMul(Unwrap(number), 1000))
  ELSE Some(TruncMul(Unwrap(number), 1000 * 1000))

\* let mb = match unit { "MB" => number, "GB" => number * 1024.0, ... };
\* Some(mb as i64), for the parsed number and the text of the unit
convert_to_mb(number, unit_str) ==
  IF ~(\/ starts_with(unit_str, <<"M","B">>)
       \/ starts_with(unit_str, <<"G","B">>)
       \/ starts_with(unit_str, <<"T","B">>)) THEN None
  ELSE IF ~IsSome(number) THEN None
  ELSE IF starts_with(unit_str, <<"M","B">>)
       THEN Some(TruncMul(Unwrap(number), 1))
  ELSE IF starts_with(unit_str, <<"G","B">>)
       THEN Some(TruncMul(Unwrap(number), 1024))
  ELSE Some(TruncMul(Unwrap(number), 1024 * 1024))

\* parse_size_parts that takes a number without a unit as megabytes
parse_size_parts_lone_number(parts) ==
  IF parts = <<>> THEN None
  ELSE IF Len(parts) < 2 THEN convert_to_mb(parse_f64(parts[1]), <<"M","B">>)
  ELSE convert_to_mb(parse_f64(parts[1]), parts[2])

\* parse_single_size from `if parts.len() < 2` on
parse_size_parts(parts) ==
  IF Len(parts) < 2 THEN None
  ELSE convert_to_mb(parse_f64(parts[1]), parts[2])

parse_single_size(size_str) == parse_size_parts(split_whitespace(size_str))

\* str::strip_prefix(p).unwrap_or(s)
strip_prefix_or(s, p) ==
  IF starts_with(s, p) THEN SubSeq(s, Len(p) + 1, Len(s)) ELSE s

Min2(a, b) == IF a <= b THEN a ELSE b

\* smaller_size that keeps the first size whenever it parsed
smaller_size_first_wins(first_size, second_size) ==
  IF IsSome(first_size) THEN first_size ELSE second_size

\* the smaller of the two sizes of a range, or the one that parsed
smaller_size(first_size, second_size) ==
  IF IsSome(first_size) /\ IsSome(second_size)
  THEN Some(Min2(Unwrap(first_size), Unwrap(second_size)))
  ELSE IF IsSome(first_size) THEN first_size
  ELSE second_size

\* the branch of parse_size_to_mb for "a/b unit": a first part without a unit
\* takes the unit of the second part
parse_size_range(first_part, second_part, second_parts) ==
  smaller_size(IF Len(split_whitespace(first_part)) = 1 /\ Len(second_parts) >= 2
               THEN parse_single_size(first_part \o <<" ">> \o second_parts[2])
               ELSE parse_single_size(first_part),
               parse_single_size(second_part))

\* parse_size_to_mb from `if size_str.contains('/')` on
parse_cleaned_size(size_str, parts) ==
  IF contains(size_str, <<"/">>)
  THEN parse_size_range(trim(parts[1]), trim(parts[2]), split_whitespace(trim(parts[2])))
  ELSE parse_single_size(size_str)

\* the text of the size without "from ", "~" and what follows a '['
cleaned_size(original) ==
  trim(split(strip_prefix_or(strip_prefix_or(original, <<"f","r","o","m"," ">>), <<"~">>), "[")[1])

parse_size_to_mb(size_opt) ==
  IF ~IsSome(size_opt) THEN None
  ELSE parse_cleaned_size(cleaned_size(trim(Unwrap(size_opt))),
                          split(cleaned_size(trim(Unwrap(size_opt))), "/"))

(***************************************************************************)
(* Regular expressions of the regex crate, as far as the title cleaner     *)
(* uses them: a pattern is a tree, Match gives the ends of its matches     *)
(* from one start position in the engine's order of preference             *)
(* (leftmost-first: greedy repetition, first alternative first).           *)
(***************************************************************************)
Eps == [t |-> "eps"]
Eol == [t |-> "eol"]
AnyChar == [t |-> "any"]
In(S) == [t |-> "set", s |-> S]
NotIn(S) == [t |-> "nset", s |-> S]
Lit(s) == [t |-> "lit", s |-> s]
Cat(a, b) == [t |-> "cat", a |-> a, b |-> b]
Alt(a, b) == [t |-> "alt", a |-> a, b |-> b]
Star(a) == [t |-> "star", a |-> a]
Plus(a) == Cat(a, Star(a))
Opt(a) == Alt(a, Eps)

\* a sequence of patterns one after the other (the tree is kept balanced, which
\* changes no match)
RECURSIVE CatAll(_)
CatAll(rs) ==
  IF Len(rs) = 1 THEN rs[1]
  ELSE LET h == Len(rs) \div 2
       IN  Cat(CatAll(SubSeq(rs, 1, h)), CatAll(SubSeq(rs, h + 1, Len(rs))))

\* a|b|c..., the first alternative preferred
RECURSIVE AltAll(_)
AltAll(rs) ==
  IF Len(rs) = 1 THEN rs[1]
  ELSE LET h == Len(rs) \div 2
       IN  Alt(AltAll(SubSeq(rs, 1, h)), AltAll(SubSeq(rs, h + 1, Len(rs))))

\* a pattern that consumes exactly one character
OneChar(r) == r.t \in {"any", "set", "nset"}

\* whether the one-character pattern r accepts the character c
Accepts(r, c) ==
  CASE r.t = "any"  -> c # "nl"
    [] r.t = "set"  -> c \in r.s
    [] r.t = "nset" -> c \notin r.s

\* the length of the longest run of characters from position i that r accepts
RunLength(r, s, i) ==
  LET rejected == {j \in i..Len(s) : ~Accepts(r, s[j])}
  IN  IF rejected = {} THEN Len(s) + 1 - i
      ELSE (CHOOSE j \in rejected : \A k \in rejected : j <= k) - i

RECURSIVE Match(_, _, _)
RECURSIVE MatchFrom(_, _, _)
\* the matches of r from each start of the sequence starts, in order
MatchFrom(r, s, starts) ==
  IF starts = <<>> THEN <<>>
  ELSE IF Len(starts) = 1 THEN Match(r, s, starts[1])
  ELSE LET h == Len(starts) \div 2
       IN  MatchFrom(r, s, SubSeq(starts, 1, h)) \o
           MatchFrom(r, s, SubSeq(starts, h + 1, Len(starts)))

Match(r, s, i) ==
  CASE r.t = "eps"  -> <<i>>
    [] r.t = "eol"  -> IF i = Len(s) + 1 THEN <<i>> ELSE <<>>
    [] OneChar(r)   -> IF i <= Len(s) /\ Accepts(r, s[i]) THEN <<i + 1>> ELSE <<>>
    [] r.t = "lit"  -> IF i + Len(r.s) - 1 <= Len(s) /\ SubSeq(s, i, i + Len(r.s) - 1) = r.s
                       THEN <<i + Len(r.s)>> ELSE <<>>
    [] r.t = "cat"  -> MatchFrom(r.b, s, Match(r.a, s, i))
    [] r.t = "alt"  -> Match(r.a, s, i) \o Match(r.b, s, i)
    [] r.t = "star" ->
         IF OneChar(r.a)
         THEN \* greedy: the longest run first, then each shorter one
              LET n == RunLength(r.a, s, i)
              IN  [k \in 1..(n + 1) |-> i + n + 1 - k]
         ELSE MatchFrom(r, s, SelectSeq(Match(r.a, s, i), LAMBDA e : e > i)) \o <<i>>

\* Regex::replace_all(s, rep) for a pattern that matches no empty string:
\* the leftmost match is replaced, the search goes on after it
RECURSIVE ReplaceFrom(_, _, _, _)
ReplaceFrom(r, s, rep, i) ==
  LET hits == {j \in i..Len(s) : LET e == Match(r, s, j) IN e # <<>> /\ e[1] > j}
  IN  IF hits = {} THEN SubSeq(s, i, Len(s))
      ELSE LET j == CHOOSE h \in hits : \A k \in hits : h <= k
           IN  SubSeq(s, i, j - 1) \o rep \o ReplaceFrom(r, s, rep, Match(r, s, j)[1])

replace_all(r, s, rep) == ReplaceFrom(r, s, rep, 1)

(***************************************************************************)
(* TitleNormalizer: crawler/title_cleaner.rs and crawler.rs.  The two      *)
(* copies differ in the characters of the dash class only, so the rules    *)
(* take the class as a parameter.                                          *)
(***************************************************************************)
\* [‚Äì\-‚Äì] in crawler/title_cleaner.rs
DashModular == {"sbquo", "Auml", "igrave", "-"}
\* [–\-–] in crawler.rs
DashMonolithic == {"ndash", "-"}

Sp0 == Star(In(WhiteSpace))
Sp1 == Plus(In(WhiteSpace))
Num == Plus(In(Digits))
DotNums == Star(Cat(Lit(<<".">>), Num))
Digit == In(Digits)

EditionNames ==
  AltAll(<<Lit(<<"D","e","l","u","x","e">>), Lit(<<"P","r","e","m","i","u","m">>), Lit(<<"U","l","t","i","m","a","t","e">>), Lit(<<"G","o","l","d">>),
           Lit(<<"S","p","e","c","i","a","l">>),
           CatAll(<<Lit(<<"C","o","l","l","e","c","t","o","r">>), Opt(Lit(<<"'">>)), Opt(Lit(<<"s">>))>>),
           CatAll(<<Lit(<<"G","a","m","e">>), Sp1, Lit(<<"o","f">>), Sp1, Lit(<<"t","h","e">>), Sp1, Lit(<<"Y","e","a","r">>)>>)>>)

SpecificEditionNames ==
  AltAll(<<Lit(<<"J","a","c","k","d","a","w">>), Lit(<<"S","u","p","p","o","r","t","e","r">>), Lit(<<"A","n","n","i","v","e","r","s","a","r","y">>), Lit(<<"L","i","m","i","t","e","d">>),
           Cat(Lit(<<"C","o","l","l","e","c","t","o","r","'">>), Opt(Lit(<<"s">>))),
           Lit(<<"S","p","e","c","i","a","l">>), Lit(<<"E","n","h","a","n","c","e","d">>), Lit(<<"D","e","f","i","n","i","t","i","v","e">>), Lit(<<"R","e","m","a","s","t","e","r","e","d">>),
           CatAll(<<Lit(<<"D","i","r","e","c","t","o","r","'">>), Opt(Lit(<<"s">>)), Lit(<<" ","C","u","t">>)>>),
           CatAll(<<Lit(<<"G","a","m","e">>), Sp1, Lit(<<"o","f">>), Sp1, In({"T", "t"}), Lit(<<"h","e">>),
                    Sp1, Lit(<<"Y","e","a","r">>)>>),
           CatAll(<<Lit(<<"M","a","s","t","e","r">>), Sp1, Lit(<<"C","r","a","f","t","e","d">>)>>),
           CatAll(<<Lit(<<"K","h","a","o","s">>), Sp1, Lit(<<"R","e","i","g","n","s">>), Sp1, Lit(<<"K","o","l","l","e","c","t","i","o","n">>)>>)>>)

PlatformNames ==
  AltAll(<<Lit(<<"G","O","G">>), Lit(<<"S","t","e","a","m">>), Lit(<<"G","O","G","/","S","t","e","a","m">>), Lit(<<"M","S">>), Lit(<<"E","p","i","c">>),
           Lit(<<"O","r","i","g","i","n">>), Lit(<<"U","p","l","a","y">>), Lit(<<"B","a","t","t","l","e",".","n","e","t">>)>>)

PlatformEndNames ==
  AltAll(<<Lit(<<"G","O","G">>), Lit(<<"S","t","e","a","m">>), Lit(<<"M","S">>), Lit(<<"E","p","i","c">>), Lit(<<"O","r","i","g","i","n">>),
           Lit(<<"U","p","l","a","y">>), Lit(<<"B","a","t","t","l","e",".","n","e","t">>)>>)

\* \s*[dash:]\s*(?:Digital\s+)?(?:Deluxe|...)\s+Edition
edition_regex(dash) ==
  CatAll(<<Sp0, In(dash \cup {":"}), Sp0, Opt(Cat(Lit(<<"D","i","g","i","t","a","l">>), Sp1)),
           EditionNames, Sp1, Lit(<<"E","d","i","t","i","o","n">>)>>)

\* ,\s*(?:Digital\s+)?(?:Deluxe|...)\s+Edition
edition_comma_regex ==
  CatAll(<<Lit(<<",">>), Sp0, Opt(Cat(Lit(<<"D","i","g","i","t","a","l">>), Sp1)),
           EditionNames, Sp1, Lit(<<"E","d","i","t","i","o","n">>)>>)

\* \s*[dash]\s*v\d+(?:\.\d+)*(?:\.\d+)*\s*\+.*
dlc_regex(dash) ==
  CatAll(<<Sp0, In(dash), Sp0, Lit(<<"v">>), Num, DotNums, DotNums, Sp0, Lit(<<"+">>),
           Star(AnyChar)>>)

\* \s*,\s*v\d+(?:\.\d+)*(?:\.\d+)*.*
dlc_regex2 ==
  CatAll(<<Sp0, Lit(<<",">>), Sp0, Lit(<<"v">>), Num, DotNums, DotNums, Star(AnyChar)>>)

\* \s*\+.*
dlc_content_regex == CatAll(<<Sp0, Lit(<<"+">>), Star(AnyChar)>>)

\* \s*[dash]\s*(?:Jackdaw|...)\s+Edition
specific_edition_regex(dash) ==
  CatAll(<<Sp0, In(dash), Sp0,
           CatAll(<<SpecificEditionNames, Sp1, Lit(<<"E","d","i","t","i","o","n">>)>>)>>)

\* the patterns whose matches are deleted before the trim, in the order of
\* the code
TitleRules(dash) ==
  LET AfterDash(r) == CatAll(<<Sp0, In(dash), Sp0, r>>)
  IN
  << \* slash_regex  /.*
     Cat(Lit(<<"/">>), Star(AnyChar)),
     \* comma_version_regex  ,\s*v\d+.*
     CatAll(<<Lit(<<",">>), Sp0, Lit(<<"v">>), Num, Star(AnyChar)>>),
     \* comma_build_regex  ,\s*Build\s+\d+.*
     CatAll(<<Lit(<<",">>), Sp0, Lit(<<"B","u","i","l","d">>), Sp1, Num, Star(AnyChar)>>),
     \* version_regex
     AfterDash(CatAll(<<Lit(<<"v">>), Num, DotNums, DotNums, DotNums>>)),
     \* build_regex
     AfterDash(CatAll(<<Lit(<<"B","u","i","l","d">>), Sp1, Num>>)),
     \* revision_regex
     AfterDash(Cat(Lit(<<"r">>), Num)),
     \* revision_dot_regex  \.r\d+
     Cat(Lit(<<".","r">>), Num),
     \* revision_standalone_regex  \s+r\d+
     CatAll(<<Sp1, Lit(<<"r">>), Num>>),
     \* date_regex  \d{1,2}\.\d{1,2}\.\d{4}
     AfterDash(CatAll(<<Digit, Opt(Digit), Lit(<<".">>), Digit, Opt(Digit),
                        Lit(<<".">>), Digit, Digit, Digit, Digit>>)),
     \* date_regex2  \d{8}_\d{4}-\d+
     AfterDash(CatAll(<<Digit, Digit, Digit, Digit, Digit, Digit, Digit, Digit,
                        Lit(<<"_">>), Digit, Digit, Digit, Digit, Lit(<<"-">>), Num>>)),
     edition_regex(dash),
     edition_comma_regex,
     dlc_regex(dash),
     dlc_regex2,
     dlc_content_regex,
     \* paren_regex  \s*\([^)]*\)
     CatAll(<<Sp0, Lit(<<"(">>), Star(NotIn({")"})), Lit(<<")">>)>>),
     \* platform_regex
     AfterDash(PlatformNames),
     \* platform_end_regex
     CatAll(<<Sp1, PlatformEndNames, Eol>>),
     \* build_after_version_regex  \s+build\s+\d+
     CatAll(<<Sp1, Lit(<<"b","u","i","l","d">>), Sp1, Num>>),
     \* standalone_build_regex
     AfterDash(CatAll(<<Lit(<<"b","u","i","l","d">>), Sp1, Num>>)),
     \* hotfix_regex
     AfterDash(CatAll(<<Lit(<<"H","o","t","f","i","x">>), Sp1, Num>>)),
     \* release_regex  \s*[dash]?\s*Release$
     CatAll(<<Sp0, Opt(In(dash)), Sp0, Lit(<<"R","e","l","e","a","s","e">>), Eol>>),
     \* datapack_regex  \s*Data\s+Pack\s+\d+\.\d+$
     CatAll(<<Sp0, Lit(<<"D","a","t","a">>), Sp1, Lit(<<"P","a","c","k">>), Sp1, Num, Lit(<<".">>), Num, Eol>>),
     \* repack_regex
     AfterDash(CatAll(<<AltAll(<<Lit(<<"M","o","n","k","e","y">>), Lit(<<"T","u","r","t","l","e">>), Lit(<<"C","o","m","p","r","e","s","s","e","d">>),
                                 Lit(<<"B","e","t","t","e","r","R","e","p","a","c","k">>)>>), Star(AnyChar), Eol>>)),
     specific_edition_regex(dash) >>

\* the names the code gives the patterns of TitleRules, in the same order
RuleNames ==
  <<"slash_regex", "comma_version_regex", "comma_build_regex", "version_regex",
    "build_regex", "revision_regex", "revision_dot_regex",
    "revision_standalone_regex", "date_regex", "date_regex2", "edition_regex",
    "edition_comma_regex", "dlc_regex", "dlc_regex2", "dlc_content_regex",
    "paren_regex", "platform_regex", "platform_end_regex",
    "build_after_version_regex", "standalone_build_regex", "hotfix_regex",
    "release_regex", "datapack_regex", "repack_regex", "specific_edition_regex">>

RECURSIVE DeleteAll(_, _)
\* cleaned = regex.replace_all(&cleaned, "") for each pattern in turn
DeleteAll(rules, s) ==
  IF rules = <<>> \/ s = <<>> THEN s
  ELSE IF Len(rules) = 1 THEN replace_all(rules[1], s, <<>>)
  ELSE LET h == Len(rules) \div 2
       IN  DeleteAll(SubSeq(rules, h + 1, Len(rules)), DeleteAll(SubSeq(rules, 1, h), s))

\* trailing_regex  [,:\-dash\s]+$
trailing_regex_with_digits(dash) ==
  Cat(Plus(In({",", ":", "-"} \cup dash \cup WhiteSpace \cup Digits)), Eol)
trailing_regex(dash) ==
  Cat(Plus(In({",", ":", "-"} \cup (dash \ {"-"}) \cup WhiteSpace)), Eol)

\* the end of clean_game_title: trim(), space_regex \s+ -> " ", trailing_regex
tidy_title(dash, stripped) ==
  replace_all(trailing_regex(dash), replace_all(Sp1, trim(stripped), <<" ">>), <<>>)

clean_title_with(dash, title) == tidy_title(dash, DeleteAll(TitleRules(dash), title))

\* clean_game_title as crawler_commands.rs imports it (crate::crawler re-exports
\* title_cleaner::clean_game_title)
clean_game_title(title) == clean_title_with(DashModular, title)

\* clean_game_title of crawler.rs, which commands.rs imports
clean_game_title_monolithic(title) == clean_title_with(DashMonolithic, title)

(***************************************************************************)
(* DetailExtractor and BlacklistFilter: crawler/mod.rs, crawler/           *)
(* extractors.rs.  An article fragment is what the selectors of            *)
(* extract_repack_from_article see of it:                                  *)
(*   title_elem  whether h1.entry-title / h2.entry-title exists            *)
(*   link        Option of the first <a> in it: [href: Option, text]       *)
(*   time        Option of time.entry-date: [datetime: Option, text]       *)
(*   content     Option of div.entry-content: [details, image_url,         *)
(*               anchors], details and image_url being what                *)
(*               extract_game_details and extract_cover_image return and   *)
(*               anchors the <a> elements in document order, each with its *)
(*               href and the text of its nearest enclosing <li>           *)
(***************************************************************************)
Unknown == <<"U","n","k","n","o","w","n">>
MagnetPrefix == <<"m","a","g","n","e","t",":">>

\* the source label of one magnet anchor
magnet_source(li) ==
  IF IsSome(li) THEN trim(split(split(Unwrap(li), "|")[1], "[")[1]) ELSE Unknown

RECURSIVE extract_magnet_links(_)
extract_magnet_links(anchors) ==
  IF anchors = <<>> THEN <<>>
  ELSE LET a == Head(anchors)
       IN  (IF starts_with(a.href, MagnetPrefix)
            THEN <<[source |-> magnet_source(a.li), magnet |-> a.href]>>
            ELSE <<>>) \o extract_magnet_links(Tail(anchors))

\* the date of time.entry-date: the datetime attribute, else the trimmed text
extract_date(time) ==
  IF ~IsSome(time) THEN None
  ELSE IF IsSome(Unwrap(time).datetime) THEN Unwrap(time).datetime
  ELSE Some(trim(Unwrap(time).text))

\* Option<GameRepack>
extract_repack_from_article(article) ==
  IF ~article.title_elem THEN None
  ELSE IF ~IsSome(article.link) THEN None
  ELSE IF ~IsSome(Unwrap(article.link).href) THEN None
  ELSE IF ~IsSome(article.content) THEN None
  ELSE LET link == Unwrap(article.link)
           content == Unwrap(article.content)
       IN  Some([title         |-> trim(link.text),
                 genres_tags   |-> content.details.genres_tags,
                 company       |-> content.details.company,
                 languages     |-> content.details.languages,
                 original_size |-> content.details.original_size,
                 repack_size   |-> content.details.repack_size,
                 url           |-> Unwrap(link.href),
                 date          |-> extract_date(article.time),
                 image_url     |-> content.image_url,
                 magnet_links  |-> extract_magnet_links(content.anchors)])

DefaultBlacklist ==
  << <<"u","p","c","o","m","i","n","g","-","r","e","p","a","c","k","s">>, <<"u","p","d","a","t","e","s","-","d","i","g","e","s","t">>, <<"r","u","s","s","i","a","n"," ","m","o","v","i","e","s">>,
     <<"m","o","v","i","e","s"," ","w","e","e","k","e","n","d">>, <<"m","o","v","i","e","s"," ","#">> >>

\* load_blacklist: file is Option of the lines of config/blacklist.txt
load_blacklist(file) ==
  IF IsSome(file)
  THEN LET kept == SelectSeq(Unwrap(file),
                             LAMBDA line : trim(line) # <<>> /\ ~starts_with(trim(line), <<"#">>))
       IN  [i \in 1..Len(kept) |-> to_lowercase(trim(kept[i]))]
  ELSE DefaultBlacklist

\* the mutant of is_blacklisted that compares without lowercasing
is_blacklisted_case_sensitive(blacklist, url, title) ==
  \E i \in 1..Len(blacklist) :
    contains(url, blacklist[i]) \/ contains(title, blacklist[i])

is_blacklisted(blacklist, url, title) ==
  LET url_lower == to_lowercase(url)
      title_lower == to_lowercase(title)
  IN  \E i \in 1..Len(blacklist) :
        contains(url_lower, blacklist[i]) \/ contains(title_lower, blacklist[i])

\* the mutant of parse_articles that stops at the first fragment without a record
RECURSIVE parse_articles_stop_at_failure(_, _)
parse_articles_stop_at_failure(blacklist, articles) ==
  IF articles = <<>> THEN <<>>
  ELSE LET repack == extract_repack_from_article(Head(articles))
       IN  IF ~IsSome(repack) THEN <<>>
           ELSE (IF is_blacklisted(blacklist, Unwrap(repack).url, Unwrap(repack).title)
                 THEN <<>> ELSE <<Unwrap(repack)>>)
                \o parse_articles_stop_at_failure(blacklist, Tail(articles))

\* the loop of crawl_page over document.select("article")
RECURSIVE parse_articles(_, _)
parse_articles(blacklist, articles) ==
  IF articles = <<>> THEN <<>>
  ELSE LET repack == extract_repack_from_article(Head(articles))
           rest == parse_articles(blacklist, Tail(articles))
       IN  IF ~IsSome(repack) THEN rest
           ELSE IF is_blacklisted(blacklist, Unwrap(repack).url, Unwrap(repack).title)
                THEN rest
                ELSE <<Unwrap(repack)>> \o rest

\* crawl_page: response is what fetch_page returns, [ok, html], html being the
\* article fragments of the document; the result is Result<Vec<GameRepack>>
crawl_page(blacklist, response) ==
  IF ~response.ok THEN [ok |-> FALSE, repacks |-> <<>>]
  ELSE [ok |-> TRUE, repacks |-> parse_articles(blacklist, response.html)]

(***************************************************************************)
(* Storage: the tables of database/mod.rs init_tables that the save path   *)
(* writes, each a set of rows.  The timestamp columns are left out.        *)
(***************************************************************************)
EmptyDb ==
  [repacks |-> {}, magnet_links |-> {}, categories |-> {}, game_categories |-> {}]

\* INTEGER PRIMARY KEY AUTOINCREMENT of a table no row is ever deleted from
next_id(rows) ==
  IF rows = {} THEN 1
  ELSE (CHOOSE r \in rows : \A q \in rows : q.id <= r.id).id + 1

RepackRow(id, repack, clean_name, parsed_size) ==
  [id            |-> id,
   title         |-> repack.title,
   clean_name    |-> clean_name,
   genres_tags   |-> repack.genres_tags,
   company       |-> repack.company,
   languages     |-> repack.languages,
   original_size |-> repack.original_size,
   repack_size   |-> repack.repack_size,
   size          |-> parsed_size,
   url           |-> repack.url,
   date          |-> repack.date,
   image_url     |-> repack.image_url]

\* the mutant of upsert_repack without the ON CONFLICT(url) clause on a table
\* without the UNIQUE constraint
upsert_repack_always_insert(rows, repack, clean_name, parsed_size) ==
  rows \cup {RepackRow(next_id(rows), repack, clean_name, parsed_size)}

\* the mutant of upsert_repack that keeps a stored value where the new record
\* has none (SET col = COALESCE(excluded.col, col))
upsert_repack_coalesce(rows, repack, clean_name, parsed_size) ==
  LET hit == {row \in rows : row.url = repack.url}
      Keep(new, old) == IF IsSome(new) THEN new ELSE old
  IN  IF hit = {}
      THEN rows \cup {RepackRow(next_id(rows), repack, clean_name, parsed_size)}
      ELSE (rows \ hit) \cup
           {[RepackRow(row.id, repack, clean_name, parsed_size) EXCEPT
               !.genres_tags = Keep(repack.genres_tags, row.genres_tags),
               !.company = Keep(repack.company, row.company),
               !.languages = Keep(repack.languages, row.languages),
               !.original_size = Keep(repack.original_size, row.original_size),
               !.repack_size = Keep(repack.repack_size, row.repack_size),
               !.size = Keep(parsed_size, row.size),
               !.date = Keep(repack.date, row.date),
               !.image_url = Keep(repack.image_url, row.image_url)] : row \in hit}

\* INSERT INTO repacks (...) VALUES (...) ON CONFLICT(url) DO UPDATE SET ...
\* on the table with url TEXT UNIQUE
upsert_repack(rows, repack, clean_name, parsed_size) ==
  LET hit == {row \in rows : row.url = repack.url}
  IN  IF hit = {}
      THEN rows \cup {RepackRow(next_id(rows), repack, clean_name, parsed_size)}
      ELSE (rows \ hit) \cup
           {RepackRow(row.id, repack, clean_name, parsed_size) : row \in hit}

\* SELECT id FROM repacks WHERE url = ?1
get_repack_id(rows, url) == (CHOOSE row \in rows : row.url = url).id

\* the mutant of upsert_magnet without the ON CONFLICT(repack_id, source) clause
upsert_magnet_always_insert(rows, repack_id, magnet) ==
  rows \cup {[id |-> next_id(rows), repack_id |-> repack_id,
              source |-> magnet.source, magnet |-> magnet.magnet]}

\* the mutant of upsert_magnet with INSERT OR IGNORE
upsert_magnet_or_ignore(rows, repack_id, magnet) ==
  LET hit == {row \in rows : row.repack_id = repack_id /\ row.source = magnet.source}
  IN  IF hit = {}
      THEN rows \cup {[id |-> next_id(rows), repack_id |-> repack_id,
                       source |-> magnet.source, magnet |-> magnet.magnet]}
      ELSE rows

\* INSERT INTO magnet_links ... ON CONFLICT(repack_id, source) DO UPDATE SET
\* magnet = excluded.magnet
upsert_magnet(rows, repack_id, magnet) ==
  LET hit == {row \in rows : row.repack_id = repack_id /\ row.source = magnet.source}
  IN  IF hit = {}
      THEN rows \cup {[id |-> next_id(rows), repack_id |-> repack_id,
                       source |-> magnet.source, magnet |-> magnet.magnet]}
      ELSE (rows \ hit) \cup {[row EXCEPT !.magnet = magnet.magnet] : row \in hit}

RECURSIVE upsert_magnets(_, _, _)
\* for magnet in &repack.magnet_links { insert_magnet_stmt.execute(...) }
upsert_magnets(rows, repack_id, magnets) ==
  IF magnets = <<>> THEN rows
  ELSE upsert_magnets(upsert_magnet(rows, repack_id, Head(magnets)), repack_id,
                      Tail(magnets))

\* genres_tags.split(',').map(trim).filter(non-empty), for Some(genres_tags)
\* whose trim is not empty
category_names(genres_tags) ==
  IF ~IsSome(genres_tags) \/ trim(Unwrap(genres_tags)) = <<>> THEN <<>>
  ELSE LET parts == split(Unwrap(genres_tags), ",")
           trimmed == [i \in 1..Len(parts) |-> trim(parts[i])]
       IN  SelectSeq(trimmed, LAMBDA s : s # <<>>)

RECURSIVE insert_categories(_, _, _)
\* INSERT OR IGNORE INTO categories; SELECT id; INSERT OR IGNORE INTO
\* game_categories, for each category name
insert_categories(db, repack_id, names) ==
  IF names = <<>> THEN db
  ELSE LET name == Head(names)
           cats == IF \E c \in db.categories : c.name = name THEN db.categories
                   ELSE db.categories \cup
                        {[id |-> next_id(db.categories), name |-> name]}
           category_id == (CHOOSE c \in cats : c.name = name).id
           links == IF \E g \in db.game_categories :
                         g.repack_id = repack_id /\ g.category_id = category_id
                    THEN db.game_categories
                    ELSE db.game_categories \cup
                         {[id |-> next_id(db.game_categories),
                           repack_id |-> repack_id, category_id |-> category_id]}
       IN  insert_categories([db EXCEPT !.categories = cats, !.game_categories = links],
                             repack_id, Tail(names))

\* the magnet links and the categories of the record stored under repack_id
save_repack_links(db, repacks, repack, repack_id) ==
  insert_categories([db EXCEPT !.repacks = repacks,
                               !.magnet_links = upsert_magnets(db.magnet_links, repack_id,
                                                               repack.magnet_links)],
                    repack_id, category_names(repack.genres_tags))

\* let repack_id = SELECT id FROM repacks WHERE url = ?1, and what follows it
save_repack_row(db, repack, repacks) ==
  save_repack_links(db, repacks, repack, get_repack_id(repacks, repack.url))

\* the body of the per-record closure of save_repacks_to_db, clean_name being
\* what the clean_game_title in scope returns for the title
save_repack_as(db, repack, clean_name) ==
  save_repack_row(db, repack,
                  upsert_repack(db.repacks, repack, clean_name,
                                parse_size_to_mb(repack.repack_size)))

\* check_url_exists: SELECT COUNT(*) FROM repacks WHERE url = ?1 is > 0
check_url_exists(db, url) == \E row \in db.repacks : row.url = url

\* get_latest_game_date(...) is Some(_): a repack with a date and a magnet link
has_latest_game_date_any_record(db) == db.repacks # {}
has_latest_game_date(db) ==
  \E row \in db.repacks :
    IsSome(row.date) /\ \E m \in db.magnet_links : m.repack_id = row.id

(***************************************************************************)
(* The catalog site: the article fragments its listing pages are made of.  *)
(***************************************************************************)
NoDetails ==
  [genres_tags |-> None, company |-> None, languages |-> None,
   original_size |-> None, repack_size |-> None]

\* for sibling in info_section.next_siblings(): the trimmed texts of the
\* elements up to the next h3, those without text left out.  A sibling is
\* [name, text], text being element.text().collect().
RECURSIVE text_parts(_)
text_parts(siblings) ==
  IF siblings = <<>> \/ Head(siblings).name = "h3" THEN <<>>
  ELSE IF trim(Head(siblings).text) = <<>> THEN text_parts(Tail(siblings))
  ELSE <<trim(Head(siblings).text)>> \o text_parts(Tail(siblings))

\* [String]::join(sep)
RECURSIVE join(_, _)
join(parts, sep) ==
  IF parts = <<>> THEN <<>>
  ELSE IF Len(parts) = 1 THEN parts[1]
  ELSE parts[1] \o sep \o join(Tail(parts), sep)

\* &full_text[start + label.len()..] for start = full_text.find(label)
after_label(full_text, label) ==
  SubSeq(full_text, find(full_text, label) + Len(label), Len(full_text))

\* after.find(first).or_else(|| after.find(second)).unwrap_or(otherwise)
find_end(after, first, second, otherwise) ==
  IF contains(after, first) THEN find(after, first) - 1
  ELSE IF contains(after, second) THEN find(after, second) - 1
  ELSE otherwise

\* Some(after[..end].trim().to_string())
field_text(after, end) == Some(trim(SubSeq(after, 1, end)))

genres_tags(full_text) ==
  IF contains(full_text, <<"G","e","n","r","e","s","/","T","a","g","s",":">>)
  THEN LET after == after_label(full_text, <<"G","e","n","r","e","s","/","T","a","g","s",":">>)
       IN  field_text(after, find_end(after, <<"C","o","m","p","a","n","i","e","s",":">>, <<"C","o","m","p","a","n","y",":">>, Len(after)))
  ELSE None

company(full_text) ==
  IF contains(full_text, <<"C","o","m","p","a","n","i","e","s",":">>)
  THEN LET after == after_label(full_text, <<"C","o","m","p","a","n","i","e","s",":">>)
       IN  field_text(after, find_end(after, <<"L","a","n","g","u","a","g","e","s",":">>, <<"L","a","n","g","u","a","g","e",":">>, Len(after)))
  ELSE IF contains(full_text, <<"C","o","m","p","a","n","y",":">>)
  THEN LET after == after_label(full_text, <<"C","o","m","p","a","n","y",":">>)
       IN  field_text(after, find_end(after, <<"L","a","n","g","u","a","g","e","s",":">>, <<"L","a","n","g","u","a","g","e",":">>, Len(after)))
  ELSE None

languages(full_text) ==
  IF contains(full_text, <<"L","a","n","g","u","a","g","e","s",":">>)
  THEN LET after == after_label(full_text, <<"L","a","n","g","u","a","g","e","s",":">>)
       IN  field_text(after, find_end(after, <<"O","r","i","g","i","n","a","l"," ","S","i","z","e",":">>, <<"T","h","i","s"," ","g","a","m","e">>, Len(after)))
  ELSE IF contains(full_text, <<"L","a","n","g","u","a","g","e",":">>)
  THEN LET after == after_label(full_text, <<"L","a","n","g","u","a","g","e",":">>)
       IN  field_text(after, find_end(after, <<"O","r","i","g","i","n","a","l"," ","S","i","z","e",":">>, <<"T","h","i","s"," ","g","a","m","e">>, Len(after)))
  ELSE None

original_size(full_text) ==
  IF contains(full_text, <<"O","r","i","g","i","n","a","l"," ","S","i","z","e",":">>)
  THEN LET after == after_label(full_text, <<"O","r","i","g","i","n","a","l"," ","S","i","z","e",":">>)
       IN  field_text(after, find_end(after, <<"R","e","p","a","c","k"," ","S","i","z","e",":">>, <<"R","e","p","a","c","k"," ","S","i","z","e",":">>,
                                      IF Len(after) <= 100 THEN Len(after) ELSE 100))
  ELSE None

repack_size(full_text) ==
  IF contains(full_text, <<"R","e","p","a","c","k"," ","S","i","z","e",":">>)
  THEN LET after == after_label(full_text, <<"R","e","p","a","c","k"," ","S","i","z","e",":">>)
       IN  field_text(after, find_end(after, <<"D","o","w","n","l","o","a","d">>, <<"D","o","w","n","l","o","a","d">>,
                                      IF Len(after) <= 100 THEN Len(after) ELSE 100))
  ELSE None

\* the fields of one joined info text
details_of(full_text) ==
  [genres_tags |-> genres_tags(full_text), company |-> company(full_text),
   languages |-> languages(full_text), original_size |-> original_size(full_text),
   repack_size |-> repack_size(full_text)]

\* Extractors::extract_game_details: content is [h3, siblings], h3 telling
\* whether the element holds an h3 and siblings what follows the first one
extract_game_details(content) ==
  IF content.h3 THEN details_of(join(text_parts(content.siblings), <<" ">>))
  ELSE NoDetails

\* /alpha/, first with every field and two sources
FragAlpha ==
  [title_elem |-> TRUE,
   link |-> Some([href |-> Some(<<"/","a","l","p","h","a","/">>), text |-> <<" ","A","l","p","h","a",","," ","v","1",".","0"," ">>]),
   time |-> Some([datetime |-> Some(<<"2","0","2","5","-","0","3","-","0","1">>), text |-> <<"M","a","r","c","h"," ","1">>]),
   content |-> Some(
     [details |-> [genres_tags |-> Some(<<"A","c","t","i","o","n",","," ","R","P","G">>), company |-> Some(<<"A","c","m","e">>),
                   languages |-> Some(<<"E","N","G">>), original_size |-> Some(<<"2"," ","G","B">>),
                   repack_size |-> Some(<<"1",".","1","/","1",".","3"," ","G","B">>)],
      image_url |-> Some(<<"a",".","j","p","g">>),
      anchors |-> << [href |-> <<"h","t","t","p",":","/","/","x","/">>, li |-> Some(<<"1","3","3","7","x"," ","|"," ","[","m","a","g","n","e","t","]">>)],
                     [href |-> <<"m","a","g","n","e","t",":","a","1">>, li |-> Some(<<"1","3","3","7","x"," ","|"," ","[","m","a","g","n","e","t","]">>)],
                     [href |-> <<"m","a","g","n","e","t",":","a","2">>, li |-> Some(<<" ","R","u","T","o","r"," ","[","m","a","g","n","e","t","]">>)] >>])]

\* /alpha/ again, re-posted without details, its two links under one label
FragAlphaBare ==
  [title_elem |-> TRUE,
   link |-> Some([href |-> Some(<<"/","a","l","p","h","a","/">>), text |-> <<"A","l","p","h","a"," ","-"," ","D","e","l","u","x","e"," ","E","d","i","t","i","o","n">>]),
   time |-> None,
   content |-> Some(
     [details |-> NoDetails,
      image_url |-> None,
      anchors |-> << [href |-> <<"m","a","g","n","e","t",":","a","3">>, li |-> Some(<<"1","3","3","7","x","|","[","m","a","g","n","e","t","]">>)],
                     [href |-> <<"m","a","g","n","e","t",":","a","4">>, li |-> Some(<<"1","3","3","7","x"," ","[",".","t","o","r","r","e","n","t","]">>)] >>])]

\* /beta/, its link outside any list item, its date as text only
FragBeta ==
  [title_elem |-> TRUE,
   link |-> Some([href |-> Some(<<"/","b","e","t","a","/">>), text |-> <<"B","e","t","a">>]),
   time |-> Some([datetime |-> None, text |-> <<" ","M","a","r","c","h"," ","2"," ">>]),
   content |-> Some(
     [details |-> [NoDetails EXCEPT !.genres_tags = Some(<<"R","P","G">>),
                                    !.repack_size = Some(<<"9","1","6"," ","M","B">>)],
      image_url |-> None,
      anchors |-> << [href |-> <<"m","a","g","n","e","t",":","b","1">>, li |-> None] >>])]

\* a digest post, blacklisted by its URL, which is in upper case
FragUpcoming ==
  [title_elem |-> TRUE,
   link |-> Some([href |-> Some(<<"/","U","P","C","O","M","I","N","G","-","R","E","P","A","C","K","S","-","7","/">>), text |-> <<"U","p","c","o","m","i","n","g">>]),
   time |-> None,
   content |-> Some([details |-> NoDetails, image_url |-> None, anchors |-> <<>>])]

\* a post blacklisted by its title
FragMovies ==
  [title_elem |-> TRUE,
   link |-> Some([href |-> Some(<<"/","g","a","m","m","a","/">>), text |-> <<"R","u","s","s","i","a","n"," ","M","o","v","i","e","s">>]),
   time |-> None,
   content |-> Some([details |-> NoDetails, image_url |-> None,
                     anchors |-> << [href |-> <<"m","a","g","n","e","t",":","g","1">>, li |-> None] >>])]

\* a post whose URL is in upper case
FragGenesis ==
  [title_elem |-> TRUE,
   link |-> Some([href |-> Some(<<"/","T","H","E","-","G","E","N","E","S","I","S","-","O","R","D","E","R","/">>), text |-> <<"G","e","n","e","s","i","s">>]),
   time |-> None,
   content |-> Some([details |-> NoDetails, image_url |-> None,
                     anchors |-> << [href |-> <<"m","a","g","n","e","t",":","o","1">>, li |-> Some(<<"T","a","p","o","c","h","e","k">>)] >>])]

\* articles without a title element, a title link, an href, a content region
FragNoTitle == [FragBeta EXCEPT !.title_elem = FALSE]
FragNoLink == [FragBeta EXCEPT !.link = None]
FragNoHref == [FragBeta EXCEPT !.link = Some([href |-> None, text |-> <<"B","e","t","a">>])]
FragNoContent == [FragAlpha EXCEPT !.content = None]

\* every kind of article
Fragments ==
  { FragAlpha, FragAlphaBare, FragBeta, FragUpcoming, FragMovies, FragGenesis,
    FragNoTitle, FragNoLink, FragNoHref, FragNoContent }

\* the listing pages the site serves to a crawl
SitePages ==
  { <<>>,
    <<FragAlpha, FragBeta>>,
    <<FragAlphaBare>>,
    <<FragUpcoming, FragNoContent>> }

\* what fetch_page can return: an error, or the text of a page
Responses ==
  {[ok |-> FALSE, html |-> <<>>]} \cup {[ok |-> TRUE, html |-> p] : p \in SitePages}

\* the titles the site's articles carry
SiteTitles ==
  {trim(Unwrap(a.link).text) :
     a \in {f \in Fragments : IsSome(f.link)}}

\* clean_game_title, computed once for each title of the site
CleanNames == [title \in SiteTitles |-> clean_game_title(title)]
CleanNamesMonolithic == [title \in SiteTitles |-> clean_game_title_monolithic(title)]

\* let clean_name = clean_game_title(&repack.title)
\* (every record that is saved carries the title of a site article)
CleanName(title) == CleanNames[title]
CleanNameMonolithic(title) == CleanNamesMonolithic[title]


\* what one call of save_repacks_to_db can meet: the connection or the
\* transaction fails as a whole (tx_ok = FALSE), or it commits and the records
\* at the positions in failed had their statement rejected
SaveOutcomes(repacks) ==
  {[tx_ok |-> FALSE, failed |-> {}]} \cup
  {[tx_ok |-> TRUE, failed |-> f] : f \in SUBSET (1..Len(repacks))}

\* let save_result = (|| { ... })(): the per-record closure, returning Err at
\* its first statement when the record is rejected
save_result_abort_batch(db, repack, clean_name, failed) ==
  IF failed THEN EmptyDb ELSE save_repack_as(db, repack, clean_name)
save_result(db, repack, clean_name, failed) ==
  IF failed THEN db ELSE save_repack_as(db, repack, clean_name)

RECURSIVE save_each(_, _, _, _, _)
\* for repack in repacks { match save_result { Ok => saved_count += 1, Err => log } }
save_each(db, repacks, clean_names, failed, i) ==
  IF i > Len(repacks) THEN db
  ELSE save_each(save_result(db, repacks[i], clean_names[i], i \in failed),
                 repacks, clean_names, failed, i + 1)

\* the mutant of save_repacks_to_db that replaces the tables by the batch
save_repacks_to_db_fresh(db, repacks, outcome) ==
  IF ~outcome.tx_ok THEN db
  ELSE save_each(EmptyDb, repacks,
                 [i \in 1..Len(repacks) |-> CleanName(repacks[i].title)],
                 outcome.failed, 1)

\* save_repacks_to_db(repacks, db_service): every record inside one transaction
save_repacks_to_db(db, repacks, outcome) ==
  IF ~outcome.tx_ok THEN db
  ELSE save_each(db, repacks,
                 [i \in 1..Len(repacks) |-> CleanName(repacks[i].title)],
                 outcome.failed, 1)

\* save_repacks_to_db(repacks, db_path) of commands.rs, which the CLI calls: it
\* opens the database itself and uses the clean_game_title of crawler.rs
save_repacks_to_db_path(db, repacks, outcome) ==
  IF ~outcome.tx_ok THEN db
  ELSE save_each(db, repacks,
                 [i \in 1..Len(repacks) |-> CleanNameMonolithic(repacks[i].title)],
                 outcome.failed, 1)

(***************************************************************************)
(* The crawl operations as a state machine.                                *)
(***************************************************************************)
\* const MAX_PAGES: u32 = 10 of start_crawler
MAX_PAGES == 10
\* "Safety limit - don't update more than 10 pages" of update_database
UPDATE_PAGE_LIMIT == 10
\* "Limit to 5 pages per background check" of the background task
BACKGROUND_PAGE_LIMIT == 5

\* largest start_page given to crawl_multiple_pages
MaxStartPage == 2
\* largest page count given to crawl_multiple_pages and to the CLI
MaxPagesArg == 2
\* pages for which a crawl_multiple_pages without page limit is followed
PageCap == 3

\* config/blacklist.txt: absent, or its lines
BlacklistFiles ==
  { None,
    Some(<< <<"#"," ","p","a","t","t","e","r","n","s">>, <<>>, <<" "," ","T","h","e","-","G","e","n","e","s","i","s","-","O","r","d","e","r"," ">>, <<"B","E","T","A">> >>) }

\* FitGirlCrawler::new(): the blacklist is loaded; the installation the crawl
\* operations run in has no config/blacklist.txt
FitGirlCrawler_new == [blacklist |-> load_blacklist(None)]

VARIABLES
  db,     \* the SQLite tables
  run,    \* the crawl operation in progress, its locals and its position
  obs,    \* what the operation in progress has done so far (history)
  parse,  \* one parsed listing page: configuration, input and output
  http,   \* one operation of the crawler that talks to the site, step by step
  norm,   \* one title under normalisation: input, rule position, text
  size,   \* one size text under parse_size_to_mb: input and result
  detail, \* one content element under extract_game_details: input and result
  shots,  \* one crawl_single_game call from its record on: gallery fetch and result
  popular, \* one popular list under its parser and the ranks the caller gives
  conc,   \* the service mutex and the two incremental runs that share the service
  cat     \* the category query cache, the service mutex, the savers and the category query in progress

vars == <<db, run, obs, parse, http, norm, size, detail, shots, popular, conc, cat>>

IdleRun ==
  [op |-> "idle", pc |-> "idle", start_page |-> 0, max_pages |-> None,
   current_page |-> 0, repacks |-> <<>>, new_repacks |-> <<>>, all_repacks |-> <<>>,
   total |-> 0, result |-> None]

NoObs ==
  [fetched |-> <<>>, failed_page |-> 0, empty_page |-> 0, no_new_page |-> 0,
   no_unknown_page |-> 0, known_page1 |-> FALSE, reported_page1 |-> FALSE,
   handed |-> 0, held |-> 0, accepted |-> 0, rejected |-> {}]

NoParse == [file |-> None, html |-> <<>>, out |-> None]

NoHttp ==
  [op |-> "idle", imp |-> "", url |-> <<>>, pc |-> "idle", log |-> <<>>,
   response |-> None, result |-> None, parsed |-> None]

NoNorm ==
  [pc |-> "idle", imp |-> "", input |-> <<>>, cleaned |-> <<>>, rule |-> 0,
   calls |-> 0, result |-> None]

NoSize == [pc |-> "idle", parts |-> None, text |-> None, result |-> None]

NoDetail == [pc |-> "idle", block |-> None, content |-> None, out |-> None]

NoShots ==
  [pc |-> "idle", page |-> "", repack |-> None, curl |-> None, html |-> None,
   urls |-> None, result |-> None]

NoPopular ==
  [pc |-> "idle", parser |-> "", layout |-> "", items |-> <<>>, out |-> None,
   ranked |-> <<>>]

\* the two tasks that run the incremental update on one SqliteDatabaseService
Tasks == {"update_database", "background"}

IdleTask ==
  [pc |-> "idle", current_page |-> 0, repacks |-> <<>>, next |-> 0,
   new_repacks |-> <<>>, saved |-> {}, reported_known |-> {}, check_failed |-> {}]

NoConc == [mutex |-> "free", task |-> [p \in Tasks |-> IdleTask]]

\* the callers of save_repacks_to_db
Savers == {"update_database", "background"}

IdleSaver == [pc |-> "idle", repacks |-> <<>>, saved_count |-> 0, commit |-> 0]

IdleQuery ==
  [pc |-> "idle", category_ids |-> <<>>, limit |-> 0, offset |-> 0,
   games |-> <<>>, result |-> None]

\* CATEGORY_QUERY_CACHE is empty, nothing is in progress; commits counts the
\* committed saves, returned is the last of them whose save_repacks_to_db
\* stored a record and has returned (history)
NoCat ==
  [mutex |-> "free", cache |-> {}, commits |-> 0, returned |-> 0, calls |-> 0,
   saver |-> [s \in Savers |-> IdleSaver], query |-> IdleQuery]

\* CrawlProgress { current_page, total_games, status }, or the Vec a crawl returns
Progress(current_page, total_games, status) ==
  [ok |-> TRUE, current_page |-> current_page, total_games |-> total_games,
   status |-> status, repacks |-> <<>>]

Init ==
  /\ db = EmptyDb
  /\ run = IdleRun
  /\ obs = NoObs
  /\ parse = NoParse
  /\ http = NoHttp
  /\ norm = NoNorm
  /\ cat = NoCat
  /\ conc = NoConc
  /\ popular = NoPopular
  /\ shots = NoShots
  /\ detail = NoDetail
  /\ size = NoSize

\* current_page > MAX_PAGES, current_page > 10, current_page > 5
past_page_limit_never(current_page, limit) == FALSE
past_page_limit(current_page, limit) == current_page > limit

\* Err(e) => break and repacks.is_empty() => break
ends_crawl_on_empty_only(res) == res.ok /\ res.repacks = <<>>
ends_crawl(res) == ~res.ok \/ res.repacks = <<>>

\* bookkeeping of one crawl_page call on page p
Fetched(p, res) ==
  [obs EXCEPT !.fetched = Append(@, p),
              !.failed_page = IF @ = 0 /\ ~res.ok THEN p ELSE @,
              !.empty_page = IF @ = 0 /\ res.ok /\ res.repacks = <<>> THEN p ELSE @,
              !.held = IF res.ok /\ res.repacks # <<>> THEN @ + 1 ELSE @,
              !.rejected = {}]

\* bookkeeping of one save_repacks_to_db call; rejected is the positions of
\* the records it logged as "Failed to save repack"
Handed(repacks, outcome) ==
  [obs EXCEPT !.handed = @ + 1,
              !.held = IF repacks # <<>> THEN @ - 1 ELSE @,
              !.accepted = IF outcome.tx_ok THEN @ + Len(repacks) ELSE @,
              !.rejected = outcome.failed]

\* start_crawler is invoked: the crawler is created, the loop entered
StartCrawler ==
  /\ run.op = "idle"
  /\ run' = [IdleRun EXCEPT !.op = "start_crawler", !.pc = "fetch", !.current_page = 1]
  /\ obs' = NoObs
  /\ UNCHANGED <<db, parse, http, norm, size, detail, shots, popular, conc, cat>>

\* start_crawler, top of the loop to the match on crawl_page
StartCrawlerFetch ==
  /\ run.op = "start_crawler" /\ run.pc = "fetch"
  /\ IF past_page_limit(run.current_page, MAX_PAGES)
     THEN /\ run' = [run EXCEPT !.pc = "done",
                       !.result = Some(Progress(run.current_page - 1, run.total, "Completed"))]
          /\ UNCHANGED obs
     ELSE \E response \in Responses :
            LET res == crawl_page(FitGirlCrawler_new.blacklist, response) IN
            /\ obs' = Fetched(run.current_page, res)
            /\ IF ends_crawl(res)
               THEN run' = [run EXCEPT !.pc = "done",
                              !.result = Some(Progress(run.current_page - 1, run.total, "Completed"))]
               ELSE run' = [run EXCEPT !.pc = "save", !.repacks = res.repacks]
  /\ UNCHANGED <<db, parse, http, norm, size, detail, shots, popular, conc, cat>>

\* start_crawler, save_repacks_to_db to the end of the loop body
StartCrawlerSave ==
  /\ run.op = "start_crawler" /\ run.pc = "save"
  /\ \E outcome \in SaveOutcomes(run.repacks) :
       /\ db' = save_repacks_to_db(db, run.repacks, outcome)
       /\ run' = [run EXCEPT !.pc = "fetch", !.repacks = <<>>,
                             !.total = IF outcome.tx_ok THEN @ + Len(run.repacks) ELSE @,
                             !.current_page = @ + 1]
       /\ obs' = Handed(run.repacks, outcome)
  /\ UNCHANGED <<parse, http, norm, size, detail, shots, popular, conc, cat>>

\* an operation that returns Err(e.to_string())
Failure(status) ==
  [ok |-> FALSE, current_page |-> 0, total_games |-> 0, status |-> status, repacks |-> <<>>]

\* the elements of s at the positions in keep, in their order
Pick(s, keep) ==
  LET nth(k) == CHOOSE i \in keep : Cardinality({j \in keep : j < i}) = k - 1
  IN  [k \in 1..Cardinality(keep) |-> s[nth(k)]]

\* repacks.into_iter().filter(|r| match check_url_exists(&r.url)
\*   { Ok(exists) => !exists, Err(_) => true }), the check failing for the
\* records at the positions in errs
filter_new(store, repacks, errs) ==
  Pick(repacks, {i \in 1..Len(repacks) : i \in errs \/ ~check_url_exists(store, repacks[i].url)})

\* new_repacks.is_empty()
no_new_games_never(new_repacks) == FALSE
no_new_games(new_repacks) == new_repacks = <<>>

\* bookkeeping of the filter step on page p
Filtered(store, p, repacks, errs) ==
  LET idx == 1..Len(repacks)
      unknown == {i \in idx : i \notin errs /\ ~check_url_exists(store, repacks[i].url)}
      kept == filter_new(store, repacks, errs)
  IN  [obs EXCEPT
         !.no_unknown_page = IF @ = 0 /\ unknown = {} THEN p ELSE @,
         !.no_new_page = IF @ = 0 /\ kept = <<>> THEN p ELSE @,
         !.known_page1 = IF p = 1 THEN \A i \in idx : check_url_exists(store, repacks[i].url)
                         ELSE @,
         !.reported_page1 = IF p = 1
                            THEN \A i \in idx : i \notin errs /\ check_url_exists(store, repacks[i].url)
                            ELSE @,
         !.held = IF kept = <<>> THEN @ - 1 ELSE @]

\* update_database is invoked: get_latest_game_date, the crawler is created
UpdateDatabase ==
  /\ run.op = "idle"
  /\ \E query_ok \in BOOLEAN :
       run' = IF ~query_ok
              THEN [IdleRun EXCEPT !.op = "update_database", !.pc = "done",
                                   !.result = Some(Failure("Err"))]
              ELSE IF ~has_latest_game_date(db)
              THEN [IdleRun EXCEPT !.op = "update_database", !.pc = "done",
                                   !.result = Some(Progress(0, 0, "No existing data"))]
              ELSE [IdleRun EXCEPT !.op = "update_database", !.pc = "fetch",
                                   !.current_page = 1]
  /\ obs' = NoObs
  /\ UNCHANGED <<db, parse, http, norm, size, detail, shots, popular, conc, cat>>

\* update_database, crawler.crawl_page(current_page).await
UpdateDatabaseFetch ==
  /\ run.op = "update_database" /\ run.pc = "fetch"
  /\ \E response \in Responses :
       LET res == crawl_page(FitGirlCrawler_new.blacklist, response) IN
       /\ obs' = Fetched(run.current_page, res)
       /\ IF ends_crawl(res)
          THEN run' = [run EXCEPT !.pc = "done",
                         !.result = Some(Progress(run.current_page - 1, run.total, "Updated"))]
          ELSE run' = [run EXCEPT !.pc = "filter", !.repacks = res.repacks]
  /\ UNCHANGED <<db, parse, http, norm, size, detail, shots, popular, conc, cat>>

\* update_database, the filter on check_url_exists and the test of its result
UpdateDatabaseFilter ==
  /\ run.op = "update_database" /\ run.pc = "filter"
  /\ \E errs \in SUBSET (1..Len(run.repacks)) :
       LET new_repacks == filter_new(db, run.repacks, errs) IN
       /\ obs' = Filtered(db, run.current_page, run.repacks, errs)
       /\ IF no_new_games(new_repacks)
          THEN run' = [run EXCEPT !.pc = "done", !.repacks = <<>>,
                         !.result = Some(Progress(run.current_page - 1, run.total, "Updated"))]
          ELSE run' = [run EXCEPT !.pc = "save", !.repacks = <<>>,
                                  !.new_repacks = new_repacks]
  /\ UNCHANGED <<db, parse, http, norm, size, detail, shots, popular, conc, cat>>

\* update_database, save_repacks_to_db to the safety limit at the end of the loop
UpdateDatabaseSave ==
  /\ run.op = "update_database" /\ run.pc = "save"
  /\ \E outcome \in SaveOutcomes(run.new_repacks) :
       LET total == IF outcome.tx_ok THEN run.total + Len(run.new_repacks) ELSE run.total
           current_page == run.current_page + 1
       IN
       /\ db' = save_repacks_to_db(db, run.new_repacks, outcome)
       /\ run' = IF past_page_limit(current_page, UPDATE_PAGE_LIMIT)
                 THEN [run EXCEPT !.pc = "done", !.new_repacks = <<>>, !.total = total,
                                  !.current_page = current_page,
                                  !.result = Some(Progress(current_page - 1, total, "Updated"))]
                 ELSE [run EXCEPT !.pc = "fetch", !.new_repacks = <<>>, !.total = total,
                                  !.current_page = current_page]
       /\ obs' = Handed(run.new_repacks, outcome)
  /\ UNCHANGED <<parse, http, norm, size, detail, shots, popular, conc, cat>>

\* what the background task logs at the end of one check
Logged(total_new_games) ==
  Progress(0, total_new_games,
           IF total_new_games > 0 THEN "Found new games" ELSE "No new games found")

\* the background task wakes up: get_latest_game_date, the crawler is created
BackgroundCheck ==
  /\ run.op = "idle"
  /\ \E query_ok \in BOOLEAN :
       run' = IF ~query_ok
              THEN [IdleRun EXCEPT !.op = "background", !.pc = "done",
                                   !.result = Some(Failure("error checking latest game"))]
              ELSE IF ~has_latest_game_date(db)
              THEN [IdleRun EXCEPT !.op = "background", !.pc = "done",
                                   !.result = Some(Progress(0, 0, "Skipping"))]
              ELSE [IdleRun EXCEPT !.op = "background", !.pc = "fetch", !.current_page = 1]
  /\ obs' = NoObs
  /\ UNCHANGED <<db, parse, http, norm, size, detail, shots, popular, conc, cat>>

\* the background task, crawler.crawl_page(current_page).await
BackgroundFetch ==
  /\ run.op = "background" /\ run.pc = "fetch"
  /\ \E response \in Responses :
       LET res == crawl_page(FitGirlCrawler_new.blacklist, response) IN
       /\ obs' = Fetched(run.current_page, res)
       /\ IF ends_crawl(res)
          THEN run' = [run EXCEPT !.pc = "done", !.result = Some(Logged(run.total))]
          ELSE run' = [run EXCEPT !.pc = "filter", !.repacks = res.repacks]
  /\ UNCHANGED <<db, parse, http, norm, size, detail, shots, popular, conc, cat>>

\* the background task, the filter on check_url_exists and the test of its result
BackgroundFilter ==
  /\ run.op = "background" /\ run.pc = "filter"
  /\ \E errs \in SUBSET (1..Len(run.repacks)) :
       LET new_repacks == filter_new(db, run.repacks, errs) IN
       /\ obs' = Filtered(db, run.current_page, run.repacks, errs)
       /\ IF no_new_games(new_repacks)
          THEN run' = [run EXCEPT !.pc = "done", !.repacks = <<>>,
                                  !.result = Some(Logged(run.total))]
          ELSE run' = [run EXCEPT !.pc = "save", !.repacks = <<>>,
                                  !.new_repacks = new_repacks]
  /\ UNCHANGED <<db, parse, http, norm, size, detail, shots, popular, conc, cat>>

\* the background task, save_repacks_to_db to the 5-page limit
BackgroundSave ==
  /\ run.op = "background" /\ run.pc = "save"
  /\ \E outcome \in SaveOutcomes(run.new_repacks) :
       LET total == IF outcome.tx_ok THEN run.total + Len(run.new_repacks) ELSE run.total
           current_page == run.current_page + 1
       IN
       /\ db' = save_repacks_to_db(db, run.new_repacks, outcome)
       /\ run' = IF past_page_limit(current_page, BACKGROUND_PAGE_LIMIT)
                 THEN [run EXCEPT !.pc = "done", !.new_repacks = <<>>, !.total = total,
                                  !.current_page = current_page,
                                  !.result = Some(Logged(total))]
                 ELSE [run EXCEPT !.pc = "fetch", !.new_repacks = <<>>, !.total = total,
                                  !.current_page = current_page]
       /\ obs' = Handed(run.new_repacks, outcome)
  /\ UNCHANGED <<parse, http, norm, size, detail, shots, popular, conc, cat>>

\* Ok(all_repacks) of crawl_multiple_pages
Crawled(current_page, all_repacks) ==
  [ok |-> TRUE, current_page |-> current_page, total_games |-> Len(all_repacks),
   status |-> "CRAWLING COMPLETE", repacks |-> all_repacks]

\* if let Some(max) = max_pages { if current_page >= start_page + max { break } }
reached_max_pages_never(current_page, start_page, max_pages) == FALSE
reached_max_pages(current_page, start_page, max_pages) ==
  IsSome(max_pages) /\ current_page >= start_page + Unwrap(max_pages)

\* crawl_multiple_pages(start_page, max_pages) is called
CrawlMultiplePages ==
  /\ run.op = "idle"
  /\ \E start_page \in 1..MaxStartPage :
     \E max_pages \in {None} \cup {Some(m) : m \in 0..MaxPagesArg} :
       run' = [IdleRun EXCEPT !.op = "crawl_multiple_pages", !.pc = "fetch",
                              !.start_page = start_page, !.max_pages = max_pages,
                              !.current_page = start_page]
  /\ obs' = NoObs
  /\ UNCHANGED <<db, parse, http, norm, size, detail, shots, popular, conc, cat>>

\* crawl_multiple_pages, one turn of the loop.  A crawl is followed for
\* PageCap pages: one that is still in its loop after them stays in it.
CrawlMultiplePagesFetch ==
  /\ run.op = "crawl_multiple_pages" /\ run.pc = "fetch"
  /\ IF reached_max_pages(run.current_page, run.start_page, run.max_pages)
     THEN /\ run' = [run EXCEPT !.pc = "done",
                                !.result = Some(Crawled(run.current_page, run.all_repacks))]
          /\ UNCHANGED obs
     ELSE /\ run.current_page < run.start_page + PageCap
          /\ \E response \in Responses :
               LET res == crawl_page(FitGirlCrawler_new.blacklist, response) IN
               /\ obs' = Fetched(run.current_page, res)
               /\ IF ends_crawl(res)
                  THEN run' = [run EXCEPT !.pc = "done",
                                 !.result = Some(Crawled(run.current_page, run.all_repacks))]
                  ELSE run' = [run EXCEPT !.all_repacks = @ \o res.repacks,
                                          !.current_page = @ + 1]
  /\ UNCHANGED <<db, parse, http, norm, size, detail, shots, popular, conc, cat>>

\* the CLI's crawl command: crawl_pages(db_path, pages, max_pages, verbose)
CrawlPages ==
  /\ run.op = "idle"
  /\ \E pages \in 0..MaxPagesArg : \E max_pages \in 0..MaxPagesArg :
       LET pages_to_crawl == IF max_pages > 0 THEN max_pages ELSE pages IN
       run' = [IdleRun EXCEPT !.op = "crawl_pages", !.pc = "fetch", !.start_page = 1,
                              !.max_pages = Some(pages_to_crawl), !.current_page = 1]
  /\ obs' = NoObs
  /\ UNCHANGED <<db, parse, http, norm, size, detail, shots, popular, conc, cat>>

\* crawl_pages, for page in 1..=pages_to_crawl: crawler.crawl_page(page).await
CrawlPagesFetch ==
  /\ run.op = "crawl_pages" /\ run.pc = "fetch"
  /\ IF run.current_page > Unwrap(run.max_pages)
     THEN /\ run' = [run EXCEPT !.pc = "done",
                                !.result = Some(Progress(run.current_page - 1, 0, "Ok"))]
          /\ UNCHANGED obs
     ELSE \E response \in Responses :
            LET res == crawl_page(FitGirlCrawler_new.blacklist, response) IN
            /\ obs' = Fetched(run.current_page, res)
            /\ IF ~res.ok
               THEN run' = [run EXCEPT !.current_page = @ + 1]
               ELSE run' = [run EXCEPT !.pc = "save", !.repacks = res.repacks]
  /\ UNCHANGED <<db, parse, http, norm, size, detail, shots, popular, conc, cat>>

\* crawl_pages, save_repacks_to_db(&repacks, db_path) and the end of the loop body
CrawlPagesSave ==
  /\ run.op = "crawl_pages" /\ run.pc = "save"
  /\ \E outcome \in SaveOutcomes(run.repacks) :
       /\ db' = save_repacks_to_db_path(db, run.repacks, outcome)
       /\ run' = [run EXCEPT !.pc = "fetch", !.repacks = <<>>, !.current_page = @ + 1]
       /\ obs' = Handed(run.repacks, outcome)
  /\ UNCHANGED <<parse, http, norm, size, detail, shots, popular, conc, cat>>

\* the operation has returned its result to the caller
Return ==
  /\ run.pc = "done"
  /\ run' = IdleRun
  /\ obs' = NoObs
  /\ UNCHANGED <<db, parse, http, norm, size, detail, shots, popular, conc, cat>>

Next ==
  \/ StartCrawler
  \/ StartCrawlerFetch
  \/ StartCrawlerSave
  \/ UpdateDatabase
  \/ UpdateDatabaseFetch
  \/ UpdateDatabaseFilter
  \/ UpdateDatabaseSave
  \/ BackgroundCheck
  \/ BackgroundFetch
  \/ BackgroundFilter
  \/ BackgroundSave
  \/ CrawlMultiplePages
  \/ CrawlMultiplePagesFetch
  \/ CrawlPages
  \/ CrawlPagesFetch
  \/ CrawlPagesSave
  \/ Return

Spec == Init /\ [][Next]_vars

\* the operations run as tasks of the async runtime, which polls a task that
\* can go on until it returns (every request ends within the client's timeout)
FairSpec == Spec /\ WF_vars(Next)

(***************************************************************************)
(* crawl_page and the blacklist on their own: every page of at most        *)
(* MaxFragments articles, under each blacklist file.                       *)
(***************************************************************************)
\* most articles on a page
MaxFragments == 2

RECURSIVE PagesOf(_)
\* the pages of at most n articles
PagesOf(n) ==
  IF n = 0 THEN {<<>>}
  ELSE LET shorter == PagesOf(n - 1)
       IN  shorter \cup {Append(p, f) : p \in {q \in shorter : Len(q) = n - 1}, f \in Fragments}

InitPage ==
  /\ db = EmptyDb
  /\ run = IdleRun
  /\ obs = NoObs
  /\ http = NoHttp
  /\ norm = NoNorm
  /\ cat = NoCat
  /\ conc = NoConc
  /\ popular = NoPopular
  /\ shots = NoShots
  /\ detail = NoDetail
  /\ size = NoSize
  /\ \E file \in BlacklistFiles : \E html \in PagesOf(MaxFragments) :
       parse = [file |-> file, html |-> html, out |-> None]

\* FitGirlCrawler::new() then crawl_page on the text fetched
ParsePage ==
  /\ parse.out = None
  /\ \E ok \in BOOLEAN :
       parse' = [parse EXCEPT
                   !.out = Some(crawl_page(load_blacklist(parse.file),
                                           [ok |-> ok, html |-> parse.html]))]
  /\ UNCHANGED <<db, run, obs, http, norm, size, detail, shots, popular, conc, cat>>

NextPage == ParsePage

SpecPage == InitPage /\ [][NextPage]_vars

(***************************************************************************)
(* Fetcher: the operations of FitGirlCrawler that send a request to the    *)
(* catalog site, one step per await.  A URL is the sequence of its path    *)
(* segments after base_url (<<>> is the homepage).  http.log is what the   *)
(* operation in progress has done on the wire: [e |-> "sleep", secs] for   *)
(* sleep(self.crawl_delay).await, [e |-> "get", url] for                   *)
(* self.client.get(url).send().                                            *)
(***************************************************************************)
\* crawl_delay: Duration::from_secs(1)
CRAWL_DELAY_SECS == 1

\* largest page_num given to crawl_page
MaxPageNum == 2

\* the status lines the site answers with
Statuses == {200, 404, 503}

\* StatusCode::is_success
is_success(status) == 200 <= status /\ status <= 299

\* the bodies the site answers with: a document without article elements (an
\* error page, or the page after the last one) and a listing page
Bodies == {<<>>, <<FragAlpha>>}

\* what send().await can give: Err (no connection, timeout), or a response
\* of any status
SendOutcomes ==
  {[ok |-> FALSE, status |-> 0, html |-> <<>>]} \cup
  {[ok |-> TRUE, status |-> s, html |-> b] : s \in Statuses, b \in Bodies}

\* if page_num == 1 { base_url } else { format!("{}/page/{}/", base_url, page_num) }
page_url(page_num) == IF page_num = 1 THEN <<>> ELSE <<"page", page_num>>

\* the detail pages crawl_single_game is called for
GameUrls == {<<"alpha">>, <<"beta">>}

Periods == {"month", "year", "award", "week", "today"}

\* the copies of fetch_popular_repacks: crawler/mod.rs of src-tauri,
\* crawler/mod.rs of desktop (crawler.rs has the same text), crawler/fitgirl.rs
Implementations == {"crawler", "desktop", "fitgirl"}

\* let url = match period { ... } of the three copies; None where the copy
\* returns Ok(Vec::new()) without a request
popular_url(imp, period) ==
  CASE imp = "crawler" ->
         Some(CASE period = "year" -> <<"popular-repacks-of-the-year">>
                [] period = "award" -> <<"games-with-my-personal-pink-paw-award">>
                [] period \in {"week", "today"} -> <<>>
                [] OTHER -> <<"popular-repacks">>)
    [] imp = "desktop" ->
         Some(IF period = "year" THEN <<"popular-repacks-of-the-year">>
              ELSE <<"popular-repacks">>)
    [] imp = "fitgirl" ->
         CASE period = "month" -> Some(<<"popular-repacks">>)
           [] period = "year" -> Some(<<"popular-repacks-of-the-year">>)
           [] period = "award" -> Some(<<"games-with-my-personal-pink-paw-award">>)
           [] OTHER -> None

\* an operation has been called and is about to run the step pc for url
Called(op, imp, url, pc) ==
  [NoHttp EXCEPT !.op = op, !.imp = imp, !.url = url, !.pc = pc]

\* crawl_page(page_num): let html = self.fetch_page(&url).await?
CallCrawlPage ==
  /\ http.pc = "idle"
  /\ \E page_num \in 1..MaxPageNum :
       http' = Called("crawl_page", "crawler", page_url(page_num), "sleep")
  /\ UNCHANGED <<db, run, obs, parse, norm, size, detail, shots, popular, conc, cat>>

\* crawl_single_game(url): let html = self.fetch_page(url).await?
CallCrawlSingleGame ==
  /\ http.pc = "idle"
  /\ \E url \in GameUrls :
       http' = Called("crawl_single_game", "crawler", url, "sleep")
  /\ UNCHANGED <<db, run, obs, parse, norm, size, detail, shots, popular, conc, cat>>

\* fetch_popular_repacks(period): crawler/mod.rs sends the request itself,
\* crawler/fitgirl.rs goes through fetch_page
CallFetchPopularRepacks ==
  /\ http.pc = "idle"
  /\ \E imp \in Implementations : \E period \in Periods :
       LET url == popular_url(imp, period) IN
       http' = IF ~IsSome(url)
               THEN [Called("fetch_popular_repacks", imp, <<>>, "done") EXCEPT
                       !.result = Some([ok |-> TRUE])]
               ELSE Called("fetch_popular_repacks", imp, Unwrap(url),
                           IF imp = "fitgirl" THEN "sleep" ELSE "send")
  /\ UNCHANGED <<db, run, obs, parse, norm, size, detail, shots, popular, conc, cat>>

\* fetch_page: sleep(self.crawl_delay).await
FetchPageSleep ==
  /\ http.pc = "sleep"
  /\ http' = [http EXCEPT !.pc = "send",
                          !.log = Append(@, [e |-> "sleep", secs |-> CRAWL_DELAY_SECS,
                                             url |-> <<>>])]
  /\ UNCHANGED <<db, run, obs, parse, norm, size, detail, shots, popular, conc, cat>>

\* let response = self.client.get(url).send().await?
SendRequest ==
  /\ http.pc = "send"
  /\ \E outcome \in SendOutcomes :
       http' = [http EXCEPT
                  !.log = Append(@, [e |-> "get", secs |-> 0, url |-> http.url]),
                  !.pc = IF outcome.ok THEN "text" ELSE "done",
                  !.response = IF outcome.ok
                               THEN Some([status |-> outcome.status, html |-> outcome.html])
                               ELSE None,
                  !.result = IF outcome.ok THEN None ELSE Some([ok |-> FALSE])]
  /\ UNCHANGED <<db, run, obs, parse, norm, size, detail, shots, popular, conc, cat>>

\* let text = response.text().await?; Ok(text), and the caller's
\* Html::parse_document(&html) or parse_..._html(&html)
ReadText ==
  /\ http.pc = "text"
  /\ \E read \in BOOLEAN :
       http' = [http EXCEPT
                  !.pc = "done",
                  !.result = Some([ok |-> read]),
                  !.parsed = IF read THEN Some(Unwrap(http.response).html) ELSE None]
  /\ UNCHANGED <<db, run, obs, parse, norm, size, detail, shots, popular, conc, cat>>

\* the operation returns to its caller
FetchReturn ==
  /\ http.pc = "done"
  /\ http' = NoHttp
  /\ UNCHANGED <<db, run, obs, parse, norm, size, detail, shots, popular, conc, cat>>

NextFetch ==
  \/ CallCrawlPage
  \/ CallCrawlSingleGame
  \/ CallFetchPopularRepacks
  \/ FetchPageSleep
  \/ SendRequest
  \/ ReadText
  \/ FetchReturn

SpecFetch == Init /\ [][NextFetch]_vars

(***************************************************************************)
(* clean_game_title step by step: one call on a title, one pattern after   *)
(* the other, and a second call on what the first returned.                *)
(***************************************************************************)
\* the two copies of clean_game_title
TitleCleaners == {"title_cleaner.rs", "crawler.rs"}

\* the patterns with edition_regex and edition_comma_regex moved behind the
\* three DLC patterns
EditionAfterDlc(rules) ==
  SubSeq(rules, 1, 10) \o SubSeq(rules, 13, 15) \o SubSeq(rules, 11, 12) \o
  SubSeq(rules, 16, Len(rules))

\* the patterns of each copy, in the order the code applies them
RulesOf_edition_after_dlc ==
  [imp \in TitleCleaners |->
     EditionAfterDlc(TitleRules(IF imp = "crawler.rs" THEN DashMonolithic ELSE DashModular))]
RulesOf ==
  [imp \in TitleCleaners |->
     TitleRules(IF imp = "crawler.rs" THEN DashMonolithic ELSE DashModular)]

\* the dash class of each copy
DashOf == [imp \in TitleCleaners |->
             IF imp = "crawler.rs" THEN DashMonolithic ELSE DashModular]

\* suffixes appended to a game name in one title
MaxSuffixes == 2

\* game names without any version, build, edition or platform text
CleanTitles ==
  {<<"C","y","b","e","r","p","u","n","k"," ","2","0","7","7">>, <<"T","h","e"," ","W","i","t","c","h","e","r"," ","3">>, <<"G","r","a","n","d"," ","T","h","e","f","t"," ","A","u","t","o"," ","V">>, <<"E","l","d","e","n"," ","R","i","n","g">>,
   <<"A","s","s","a","s","s","i","n","'","s"," ","C","r","e","e","d"," ","I","V",":"," ","B","l","a","c","k"," ","F","l","a","g">>, <<"S",".","T",".","A",".","L",".","K",".","E",".","R","."," ","2",":"," ","H","e","a","r","t"," ","o","f"," ","C","h","o","r","n","o","b","y","l">>}

\* what listing titles carry after the name, the dash being d
DashSuffixes(d) ==
  {<<" ", d>> \o s : s \in
     {<<" ","v","2",".","1","3">>, <<" ","v","1",".","1","2",".","3">>, <<" ","B","u","i","l","d"," ","1","2","3","4","5">>, <<" ","r","3","4","0","4","5">>, <<" ","2","6",".","0","9",".","2","0","2","5">>,
      <<" ","D","e","l","u","x","e"," ","E","d","i","t","i","o","n">>, <<" ","D","e","f","i","n","i","t","i","v","e"," ","E","d","i","t","i","o","n">>, <<" ","G","O","G">>, <<" ","H","o","t","f","i","x"," ","5">>}}

TitleSuffixes ==
  DashSuffixes("ndash") \cup DashSuffixes("-") \cup
  {<<","," ","v","1",".","5">>, <<","," ","B","u","i","l","d"," ","8","7","9","6","4","2","9">>, <<".","r","4","9","9","0","9">>, <<" ","r","1","2","3","4","5">>, <<":"," ","P","r","e","m","i","u","m"," ","E","d","i","t","i","o","n">>,
   <<","," ","U","l","t","i","m","a","t","e"," ","E","d","i","t","i","o","n">>, <<" ","G","O","G">>, <<" ","(","D","e","n","u","v","o","l","e","s","s",")">>, <<" ","+"," ","5"," ","D","L","C","s">>,
   <<" ","-"," ">>, <<" ",":"," ">>, <<" ",","," ">>}

RECURSIVE Suffixed(_, _)
\* the titles made of a name and at most n suffixes
Suffixed(names, n) ==
  IF n = 0 THEN names
  ELSE LET shorter == Suffixed(names, n - 1)
       IN  shorter \cup {t \o s : t \in shorter, s \in TitleSuffixes}

\* the titles clean_game_title is called on
Titles ==
  Suffixed(CleanTitles, 1) \cup Suffixed({<<"E","l","d","e","n"," ","R","i","n","g">>}, MaxSuffixes) \cup
  {<<"E","l","d","e","n"," ","R","i","n","g"," ","ndash"," ","D","e","l","u","x","e"," ","E","d","i","t","i","o","n"," ","ndash"," ","v","1",".","1","2",".","3"," ","ndash"," ","B","u","i","l","d"," ","1","2","3","4","5">>}

\* clean_game_title(title) is called
CallCleanGameTitle ==
  /\ norm.pc = "idle"
  /\ \E imp \in TitleCleaners : \E title \in Titles :
       norm' = [NoNorm EXCEPT !.pc = "rules", !.imp = imp, !.input = title,
                              !.cleaned = title, !.rule = 1, !.calls = 1]
  /\ UNCHANGED <<db, run, obs, parse, http, size, detail, shots, popular, conc, cat>>

\* cleaned = <the next regex>.replace_all(&cleaned, "").to_string()
ApplyRule ==
  /\ norm.pc = "rules"
  /\ norm' = [norm EXCEPT
                !.cleaned = replace_all(RulesOf[norm.imp][norm.rule], norm.cleaned, <<>>),
                !.rule = @ + 1,
                !.pc = IF norm.rule = Len(RulesOf[norm.imp]) THEN "tidy" ELSE "rules"]
  /\ UNCHANGED <<db, run, obs, parse, http, size, detail, shots, popular, conc, cat>>

\* trim, space_regex, trailing_regex, and the value is returned
TidyTitle ==
  /\ norm.pc = "tidy"
  /\ LET cleaned == tidy_title(DashOf[norm.imp], norm.cleaned) IN
     norm' = [norm EXCEPT !.pc = "done", !.cleaned = cleaned, !.result = Some(cleaned)]
  /\ UNCHANGED <<db, run, obs, parse, http, size, detail, shots, popular, conc, cat>>

\* clean_game_title is called on the value it has just returned
CleanAgain ==
  /\ norm.pc = "done" /\ norm.calls = 1
  /\ norm' = [norm EXCEPT !.pc = "rules", !.input = Unwrap(norm.result),
                          !.cleaned = Unwrap(norm.result), !.rule = 1, !.calls = 2,
                          !.result = None]
  /\ UNCHANGED <<db, run, obs, parse, http, size, detail, shots, popular, conc, cat>>

\* the caller takes the value
TitleReturn ==
  /\ norm.pc = "done"
  /\ norm' = NoNorm
  /\ UNCHANGED <<db, run, obs, parse, http, size, detail, shots, popular, conc, cat>>

NextTitle ==
  \/ CallCleanGameTitle
  \/ ApplyRule
  \/ TidyTitle
  \/ CleanAgain
  \/ TitleReturn

SpecTitle == Init /\ [][NextTitle]_vars

(***************************************************************************)
(* parse_size_to_mb on its own: one call on a size text.  A text is built  *)
(* from its parts (prefix, first side, separator, second side, suffix), or *)
(* is one of the texts without a size, or is absent.                       *)
(***************************************************************************)
\* the numbers of the size texts: text, and its value (-1)^neg * num / 10^scale
SizeNumbers ==
  { [text |-> <<"9","1","6">>, neg |-> FALSE, num |-> 916, scale |-> 0],
    [text |-> <<"1",".","1">>, neg |-> FALSE, num |-> 11,  scale |-> 1],
    [text |-> <<"1",".","3">>, neg |-> FALSE, num |-> 13,  scale |-> 1],
    [text |-> <<"1">>,   neg |-> FALSE, num |-> 1,   scale |-> 0],
    [text |-> <<"0",".","5">>, neg |-> FALSE, num |-> 5,   scale |-> 1],
    [text |-> <<"-","1",".","1">>, neg |-> TRUE, num |-> 11,  scale |-> 1] }

SizeUnits == {<<"M","B">>, <<"G","B">>, <<"T","B">>}

\* one side of a size text: a number, with a unit or without
SizeSides == [number : SizeNumbers, unit : {None} \cup {Some(u) : u \in SizeUnits}]

SizePrefixes == {<<>>, <<"f","r","o","m"," ">>, <<"~">>}

SizeSuffixes == {<<>>, <<" ","[","S","e","l","e","c","t","i","v","e"," ","D","o","w","n","l","o","a","d","]">>}

SizeSeparators == {<<"/">>, <<" ","/"," ">>}

\* a size text in its parts; first is None for a text with one size
SizeParts ==
  [prefix : SizePrefixes, first : {None} \cup {Some(s) : s \in SizeSides},
   sep : SizeSeparators, second : SizeSides, suffix : SizeSuffixes]

SideText(side) ==
  IF IsSome(side.unit) THEN side.number.text \o <<" ">> \o Unwrap(side.unit)
  ELSE side.number.text

SizeText(p) ==
  p.prefix \o (IF IsSome(p.first) THEN SideText(Unwrap(p.first)) \o p.sep ELSE <<>>)
           \o SideText(p.second) \o p.suffix

\* texts that hold no "<number> <MB|GB|TB>"
NoSizeTexts ==
  { <<"i","n","v","a","l","i","d">>, <<>>, <<" "," "," ">>, <<"1","2","G","B">>, <<"G","B">>, <<"1",".","1">>, <<"/">>, <<"a","b","c","/","d","e","f">>, <<"1",".","1"," ","g","b">>,
    <<"G","B"," ","1",".","1">>, <<"f","r","o","m">>, <<"~">>, <<"1",",","5"," ","G","B">>, <<"N","/","A">>, <<"1",".","1"," ","K","B">>, <<"1",".","1","/","1",".","3">>, <<"M","B","/","G","B">> }

\* parse_size_to_mb(&size_str) is called: on a text built from parts, on a text
\* without a size, or on None
CallParseSizeToMb ==
  /\ size.pc = "idle"
  /\ \/ \E p \in {q \in SizeParts : IsSome(q.first) \/ q.sep = <<"/">>} :
          size' = [pc |-> "done", parts |-> Some(p), text |-> Some(SizeText(p)),
                   result |-> parse_size_to_mb(Some(SizeText(p)))]
     \/ \E t \in NoSizeTexts :
          size' = [pc |-> "done", parts |-> None, text |-> Some(t),
                   result |-> parse_size_to_mb(Some(t))]
     \/ size' = [pc |-> "done", parts |-> None, text |-> None,
                 result |-> parse_size_to_mb(None)]
  /\ UNCHANGED <<db, run, obs, parse, http, norm, detail, shots, popular, conc, cat>>

SizeReturn ==
  /\ size.pc = "done"
  /\ size' = NoSize
  /\ UNCHANGED <<db, run, obs, parse, http, norm, detail, shots, popular, conc, cat>>

NextSize ==
  \/ CallParseSizeToMb
  \/ SizeReturn

SpecSize == Init /\ [][NextSize]_vars

(***************************************************************************)
(* extract_game_details on its own: one call on a content element.  The    *)
(* info block of a post is one <p> after the first <h3>, a line per field  *)
(* ("Genres/Tags: ...", "Companies: ...", ...), followed by the download   *)
(* section.  A block is told by the fields it has and by what follows it.  *)
(***************************************************************************)
FieldNames == <<"genres_tags", "company", "languages", "original_size", "repack_size">>

\* the label of a field in a block
LabelOf(block, i) ==
  CASE i = 1 -> <<"G","e","n","r","e","s","/","T","a","g","s",":">>
    [] i = 2 -> IF block.plural THEN <<"C","o","m","p","a","n","i","e","s",":">> ELSE <<"C","o","m","p","a","n","y",":">>
    [] i = 3 -> IF block.plural THEN <<"L","a","n","g","u","a","g","e","s",":">> ELSE <<"L","a","n","g","u","a","g","e",":">>
    [] i = 4 -> <<"O","r","i","g","i","n","a","l"," ","S","i","z","e",":">>
    [] i = 5 -> <<"R","e","p","a","c","k"," ","S","i","z","e",":">>

\* the value of a field in a block
ValueOf(block, i) ==
  CASE i = 1 -> <<"A","c","t","i","o","n",","," ","R","P","G">>
    [] i = 2 -> <<"C","D"," ","P","r","o","j","e","k","t"," ","R","E","D">>
    [] i = 3 -> <<"E","N","G","/","M","U","L","T","I","1","6">>
    [] i = 4 -> <<"6","3",".","4"," ","G","B">>
    [] i = 5 -> IF block.selective THEN <<"f","r","o","m"," ","3","5",".","2"," ","G","B"," ","[","S","e","l","e","c","t","i","v","e"," ","D","o","w","n","l","o","a","d","]">> ELSE <<"1",".","1"," ","G","B">>

\* the lines of the fields a block has, in the order of the page
RECURSIVE InfoLines(_, _)
InfoLines(block, i) ==
  IF i > 5 THEN <<>>
  ELSE IF i \in block.fields
       THEN <<LabelOf(block, i) \o <<" ">> \o ValueOf(block, i)>> \o InfoLines(block, i + 1)
  ELSE InfoLines(block, i + 1)

\* a paragraph of more than 100 characters
LongNote ==
  <<"Y","o","u"," ","c","a","n"," ","s","k","i","p"," ","d","o","w","n","l","o","a","d","i","n","g"," ","o","f"," ","f","i","l","e","s"," ","y","o","u"," ","d","o"," ","n","o","t"," ","n","e","e","d","."," ">> \o
  <<"H","e","r","e"," ","i","s"," ","t","h","e"," ","l","i","s","t"," ","o","f"," ","s","e","l","e","c","t","i","v","e"," ","a","n","d"," ","o","p","t","i","o","n","a","l"," ","f","i","l","e","s"," ","f","o","r"," ","t","h","e"," ","r","e","p","a","c","k",".">>

\* what follows the info paragraph
FollowedBy(block) ==
  CASE block.next = "h3"   -> << [name |-> "h3", text |-> <<"D","o","w","n","l","o","a","d"," ","M","i","r","r","o","r","s">>] >>
    [] block.next = "div"  -> << [name |-> "div", text |-> <<" ">>],
                                 [name |-> "p", text |-> <<"D","o","w","n","l","o","a","d"," ","M","i","r","r","o","r","s">>] >>
    [] block.next = "note" -> << [name |-> "p", text |-> LongNote],
                                 [name |-> "h3", text |-> <<"D","o","w","n","l","o","a","d"," ","M","i","r","r","o","r","s">>] >>
    [] block.next = "end"  -> << >>

InfoBlocks ==
  [fields : SUBSET (1..5), plural : BOOLEAN, selective : BOOLEAN,
   next : {"h3", "div", "note", "end"}, h3 : BOOLEAN]

\* the content element of a block as extract_game_details sees it
ContentOf(block) ==
  [h3 |-> block.h3,
   siblings |-> << [name |-> "p", text |-> join(InfoLines(block, 1), <<"nl">>)] >>
                  \o FollowedBy(block)]

\* Extractors::extract_game_details(&content) is called
CallExtractGameDetails ==
  /\ detail.pc = "idle"
  /\ \E block \in InfoBlocks :
       detail' = [pc |-> "done", block |-> Some(block),
                  content |-> Some(ContentOf(block)),
                  out |-> Some(extract_game_details(ContentOf(block)))]
  /\ UNCHANGED <<db, run, obs, parse, http, norm, size, shots, popular, conc, cat>>

DetailReturn ==
  /\ detail.pc = "done"
  /\ detail' = NoDetail
  /\ UNCHANGED <<db, run, obs, parse, http, norm, size, shots, popular, conc, cat>>

NextDetail ==
  \/ CallExtractGameDetails
  \/ DetailReturn

SpecDetail == Init /\ [][NextDetail]_vars

(***************************************************************************)
(* ScreenshotResolver: crawler/riotpixels.rs, and crawl_single_game from   *)
(* its record on.  The gallery page is what the code reads of it: whether  *)
(* the text holds "Just a moment" and "cloudflare", and its <a onclick>    *)
(* elements in document order, each [place, json]: place tells which of    *)
(* the selectors match it, json is Option of the array that                *)
(* serde_json::from_str reads between '[' and ']' of the attribute.  An    *)
(* item of the array is [o, s, u], each the Option that item.get(..) and   *)
(* as_i64() / as_str() give.                                               *)
(***************************************************************************)
\* str::replace(from, to)
RECURSIVE replace(_, _, _)
replace(s, from, to) ==
  LET i == find(s, from)
  IN  IF i = 0 THEN s
      ELSE SubSeq(s, 1, i - 1) \o to
           \o replace(SubSeq(s, i + Len(from), Len(s)), from, to)

\* item.get("s").and_then(|s| s.as_i64()).unwrap_or(0)
size_or_zero(item) == IF IsSome(item.s) THEN Unwrap(item.s) ELSE 0

\* Iterator::max_by_key on size_or_zero: the index of the last item with the
\* largest key, 0 for an empty array
largest_item(json_array) ==
  IF json_array = <<>> THEN 0
  ELSE CHOOSE i \in 1..Len(json_array) :
         /\ \A j \in 1..Len(json_array) :
              size_or_zero(json_array[j]) <= size_or_zero(json_array[i])
         /\ \A j \in (i + 1)..Len(json_array) :
              size_or_zero(json_array[j]) < size_or_zero(json_array[i])

\* full_res_item that never looks at the "o" flag
full_res_item_largest_only(json_array) == largest_item(json_array)

\* the index of full_res_item: the first item with "o" == 1, or else the
\* largest; 0 for None
full_res_item(json_array) ==
  LET original == {i \in 1..Len(json_array) : json_array[i].o = Some(1)}
  IN  IF original # {} THEN CHOOSE i \in original : \A j \in original : i <= j
      ELSE largest_item(json_array)

\* a.s.unwrap_or(i64::MAX) <= b.s.unwrap_or(i64::MAX), the sizes of the pages
\* being below i64::MAX
size_or_max_le(a, b) ==
  IF ~IsSome(b.s) THEN TRUE
  ELSE IF ~IsSome(a.s) THEN FALSE
  ELSE Unwrap(a.s) <= Unwrap(b.s)

\* the index of thumbnail_item: Iterator::min_by_key, the first item with the
\* smallest key; 0 for None
thumbnail_item(json_array) ==
  IF json_array = <<>> THEN 0
  ELSE CHOOSE i \in 1..Len(json_array) :
         /\ \A j \in 1..Len(json_array) : size_or_max_le(json_array[i], json_array[j])
         /\ \A j \in 1..(i - 1) : ~size_or_max_le(json_array[j], json_array[i])

\* the ScreenshotData pushed for one link: none or one
screenshot_of(link) ==
  IF ~IsSome(link.json) THEN <<>>
  ELSE LET json_array == Unwrap(link.json)
           full == full_res_item(json_array)
           thumb == thumbnail_item(json_array)
       IN  IF full = 0 THEN <<>>
           ELSE IF ~IsSome(json_array[full].u) THEN <<>>
           ELSE << [full_url |-> replace(Unwrap(json_array[full].u), <<"h","t","t","p",":">>, <<"h","t","t","p","s",":">>),
                    thumbnail_url |->
                      IF IsSome(json_array[thumb].u)
                      THEN Some(replace(Unwrap(json_array[thumb].u), <<"h","t","t","p",":">>, <<"h","t","t","p","s",":">>))
                      ELSE None] >>

RECURSIVE screenshots_of(_)
screenshots_of(links) ==
  IF links = <<>> THEN <<>>
  ELSE screenshot_of(Head(links)) \o screenshots_of(Tail(links))

\* the selectors of fetch_screenshots in order, each by the places it matches
selectors ==
  << {"a.action-colorbox"}, {"section.gallery-list-more"}, {"section.gfx-holder"},
     {"a.action-colorbox", "section.gallery-list-more", "section.gfx-holder", "a"} >>

\* document.select(&link_selector).collect()
select(document, selector) == SelectSeq(document, LAMBDA link : link.place \in selector)

\* for selector_str in selectors { .. break; } from the k-th selector on
RECURSIVE screenshots_from(_, _)
screenshots_from(document, k) ==
  IF k > Len(selectors) THEN <<>>
  ELSE IF select(document, selectors[k]) # <<>>
       THEN screenshots_of(select(document, selectors[k]))
  ELSE screenshots_from(document, k + 1)

\* RiotPixelsClient::fetch_with_curl: the Result of one run of curl, told by
\* whether the process started, its exit status, whether its output is UTF-8,
\* and the page it printed
fetch_with_curl(curl) ==
  IF ~curl.spawned THEN [ok |-> FALSE, html |-> None, err |-> "io error"]
  ELSE IF ~curl.success THEN [ok |-> FALSE, html |-> None, err |-> "curl failed"]
  ELSE IF ~curl.utf8 THEN [ok |-> FALSE, html |-> None, err |-> "invalid utf-8"]
  ELSE IF curl.page.just_a_moment /\ curl.page.cloudflare
       THEN [ok |-> FALSE, html |-> None, err |-> "Got Cloudflare challenge page"]
  ELSE [ok |-> TRUE, html |-> Some(curl.page), err |-> ""]

\* the Err arm with `?` in place of the match: the error goes to the caller
fetch_failed_propagates(e) == [ok |-> FALSE, screenshots |-> <<>>, err |-> e]

\* Err(e) => { println!(..); return Ok(Vec::new()); }
fetch_failed(e) == [ok |-> TRUE, screenshots |-> <<>>, err |-> ""]

\* the variants of one screenshot
Sizes == {100, 500, 900}

MaxVariants == 3

UrlAt(i) ==
  CASE i = 1 -> <<"h","t","t","p",":","/","/","r","p","/","1",".","j","p","g">> [] i = 2 -> <<"h","t","t","p",":","/","/","r","p","/","2",".","j","p","g">>
    [] i = 3 -> <<"h","t","t","p","s",":","/","/","r","p","/","3",".","j","p","g">> [] OTHER -> <<"h","t","t","p",":","/","/","r","p","/","n",".","j","p","g">>

Shapes ==
  [o : {None, Some(0), Some(1)}, s : {None} \cup {Some(n) : n \in Sizes}, u : BOOLEAN]

JsonArrays ==
  UNION { { [i \in 1..n |-> [o |-> f[i].o, s |-> f[i].s,
                             u |-> IF f[i].u THEN Some(UrlAt(i)) ELSE None]]
            : f \in [1..n -> Shapes] } : n \in 0..MaxVariants }

ThreeSizes ==
  << [o |-> None, s |-> Some(500), u |-> Some(UrlAt(1))],
     [o |-> None, s |-> Some(900), u |-> Some(UrlAt(2))],
     [o |-> None, s |-> Some(100), u |-> Some(UrlAt(3))] >>

\* a link whose onclick holds no JSON array
NoJson(place) == [place |-> place, json |-> None]

\* gallery pages: one screenshot link with any array, and pages on which the
\* selectors differ
GalleryPages ==
  { [just_a_moment |-> FALSE, cloudflare |-> FALSE,
     links |-> << [place |-> "a.action-colorbox", json |-> Some(a)] >>] : a \in JsonArrays }
  \cup
  { [just_a_moment |-> m, cloudflare |-> c,
     links |-> << NoJson(first), [place |-> place, json |-> Some(ThreeSizes)] >>]
    : m \in BOOLEAN, c \in BOOLEAN, first \in {"a", "section.gfx-holder"},
      place \in {"a.action-colorbox", "section.gallery-list-more",
                 "section.gfx-holder", "a"} }

CurlRuns ==
  { [spawned |-> TRUE, success |-> TRUE, utf8 |-> TRUE, page |-> p] : p \in GalleryPages }
  \cup
  { [spawned |-> s, success |-> e, utf8 |-> u,
     page |-> [just_a_moment |-> FALSE, cloudflare |-> FALSE,
               links |-> << [place |-> "a", json |-> Some(ThreeSizes)] >>]]
    : s \in BOOLEAN, e \in BOOLEAN, u \in BOOLEAN }

\* the posts crawl_single_game is called on
SinglePages ==
  { [title |-> <<"A","l","p","h","a",","," ","v","1",".","0">>, url |-> <<"/","a","l","p","h","a","/">>],
    [title |-> <<"U","p","c","o","m","i","n","g"," ","R","e","p","a","c","k","s">>, url |-> <<"/","u","p","c","o","m","i","n","g","-","r","e","p","a","c","k","s","-","1","3","/">>] }

\* the record of the page, its screenshots holding the gallery URL if the page
\* has one
SingleRecord(page, gallery) ==
  [title |-> page.title, url |-> page.url,
   screenshots |-> IF gallery THEN << <<"h","t","t","p","s",":","/","/","e","n",".","r","i","o","t","p","i","x","e","l","s",".","c","o","m","/","g","a","m","e","s","/","a","l","p","h","a","/","s","c","r","e","e","n","s","h","o","t","s","/">> >>
                   ELSE << >>]

\* crawl_single_game up to the call of fetch_screenshots: the page does not
\* load, has no article, or gives a record
CrawlSingleGame ==
  /\ shots.pc = "idle"
  /\ \/ shots' = [NoShots EXCEPT !.pc = "done", !.page = "unreachable",
                                 !.result = Some([ok |-> FALSE, repack |-> None])]
     \/ shots' = [NoShots EXCEPT !.pc = "done", !.page = "no article",
                                 !.result = Some([ok |-> TRUE, repack |-> None])]
     \/ \E page \in SinglePages : \E gallery \in BOOLEAN :
          LET repack == SingleRecord(page, gallery)
          IN  IF is_blacklisted(FitGirlCrawler_new.blacklist, repack.url, repack.title)
              THEN shots' = [NoShots EXCEPT !.pc = "done", !.page = "article",
                                            !.result = Some([ok |-> TRUE, repack |-> None])]
              ELSE shots' = [NoShots EXCEPT !.pc = IF gallery THEN "curl" ELSE "return",
                                            !.page = "article", !.repack = Some(repack)]
  /\ UNCHANGED <<db, run, obs, parse, http, norm, size, detail, popular, conc, cat>>

\* fetch_screenshots: Self::fetch_with_curl(&url).await and the match on it
FetchWithCurl ==
  /\ shots.pc = "curl"
  /\ \E curl \in CurlRuns :
       LET fetched == fetch_with_curl(curl)
       IN  shots' = [shots EXCEPT
                       !.curl = Some(curl), !.html = fetched.html,
                       !.pc = IF fetched.ok THEN "parse" ELSE "fetched",
                       !.urls = IF fetched.ok THEN None
                                ELSE Some(fetch_failed(fetched.err))]
  /\ UNCHANGED <<db, run, obs, parse, http, norm, size, detail, popular, conc, cat>>

\* fetch_screenshots from Html::parse_document on: Ok(screenshots)
FetchScreenshots ==
  /\ shots.pc = "parse"
  /\ shots' = [shots EXCEPT
                 !.pc = "fetched",
                 !.urls = Some([ok |-> TRUE, err |-> "",
                                screenshots |-> screenshots_from(Unwrap(shots.html).links, 1)])]
  /\ UNCHANGED <<db, run, obs, parse, http, norm, size, detail, popular, conc, cat>>

\* crawl_single_game: match on what fetch_screenshots returned
StoreScreenshots ==
  /\ shots.pc = "fetched"
  /\ shots' = [shots EXCEPT
                 !.pc = "return",
                 !.repack = Some([Unwrap(shots.repack) EXCEPT
                                    !.screenshots = IF Unwrap(shots.urls).ok
                                                    THEN Unwrap(shots.urls).screenshots
                                                    ELSE <<>>])]
  /\ UNCHANGED <<db, run, obs, parse, http, norm, size, detail, popular, conc, cat>>

\* crawl_single_game: Ok(repack)
CrawlSingleGameReturn ==
  /\ shots.pc = "return"
  /\ shots' = [shots EXCEPT !.pc = "done",
                            !.result = Some([ok |-> TRUE, repack |-> shots.repack])]
  /\ UNCHANGED <<db, run, obs, parse, http, norm, size, detail, popular, conc, cat>>

ShotsDone ==
  /\ shots.pc = "done"
  /\ shots' = NoShots
  /\ UNCHANGED <<db, run, obs, parse, http, norm, size, detail, popular, conc, cat>>

NextShots ==
  \/ CrawlSingleGame
  \/ FetchWithCurl
  \/ FetchScreenshots
  \/ StoreScreenshots
  \/ CrawlSingleGameReturn
  \/ ShotsDone

SpecShots == Init /\ [][NextShots]_vars

(***************************************************************************)
(* PopularListParser: crawler/popular.rs, the grid parser of               *)
(* crawler/fitgirl.rs, and the ranks of commands/popular_commands.rs.  A   *)
(* document is what the selectors see of it:                               *)
(*   content  Option of `article .entry-content`: [grid_items, list],      *)
(*            list being Option of the <li> of ul.lcp_catlist              *)
(*   widgets  the div.jetpack_top_posts_widget in document order, each     *)
(*            [headings, grid_items]                                       *)
(* A grid item or <li> is [link, img]: link is Option of its first <a>,    *)
(* [href: Option, title: Option, text]; img is Option of its first <img>,  *)
(* [src: Option].                                                          *)
(***************************************************************************)
\* link.value().attr(name).unwrap_or("")
attr_or_empty(attr) == IF IsSome(attr) THEN Unwrap(attr) ELSE <<>>

\* grid_item.select(&img_selector).next() .. attr("src")
image_url_of(item) == IF IsSome(item.img) THEN Unwrap(item.img).src ELSE None

\* the loop over grid items of parse_popular_repacks_html and
\* parse_sidebar_popular_repacks
RECURSIVE grid_entries(_)
grid_entries(grid_items) ==
  IF grid_items = <<>> THEN <<>>
  ELSE LET item == Head(grid_items)
           url == attr_or_empty(Unwrap(item.link).href)
           title == attr_or_empty(Unwrap(item.link).title)
       IN  IF ~IsSome(item.link) THEN grid_entries(Tail(grid_items))
           ELSE IF url = <<>> \/ title = <<>> THEN grid_entries(Tail(grid_items))
           ELSE << [url |-> url, title |-> title, image_url |-> image_url_of(item)] >>
                \o grid_entries(Tail(grid_items))

\* PopularRepacks::parse_popular_repacks_html
parse_popular_repacks_html(document) ==
  IF ~IsSome(document.content) THEN [ok |-> FALSE, entries |-> <<>>]
  ELSE [ok |-> TRUE, entries |-> grid_entries(Unwrap(document.content).grid_items)]

\* the loop over <li> of parse_pink_paw_award_html
RECURSIVE list_entries(_)
list_entries(lis) ==
  IF lis = <<>> THEN <<>>
  ELSE LET li == Head(lis)
           url == attr_or_empty(Unwrap(li.link).href)
           title == trim(Unwrap(li.link).text)
       IN  IF ~IsSome(li.link) THEN list_entries(Tail(lis))
           ELSE IF url = <<>> \/ title = <<>> THEN list_entries(Tail(lis))
           ELSE << [url |-> url, title |-> title, image_url |-> None] >>
                \o list_entries(Tail(lis))

\* PopularRepacks::parse_pink_paw_award_html
parse_pink_paw_award_html(document) ==
  IF ~IsSome(document.content) THEN [ok |-> FALSE, entries |-> <<>>]
  ELSE IF ~IsSome(Unwrap(document.content).list) THEN [ok |-> FALSE, entries |-> <<>>]
  ELSE [ok |-> TRUE, entries |-> list_entries(Unwrap(Unwrap(document.content).list))]

\* widget.select(&heading_selector).any(|heading| heading_text.contains(section_title))
has_title(widget, section_title) ==
  \E i \in 1..Len(widget.headings) : contains(widget.headings[i], section_title)

\* for widget in document.select(&widget_selector) { .. break; }
RECURSIVE sidebar_entries(_, _)
sidebar_entries(widgets, section_title) ==
  IF widgets = <<>> THEN <<>>
  ELSE IF ~has_title(Head(widgets), section_title)
       THEN sidebar_entries(Tail(widgets), section_title)
  ELSE grid_entries(Head(widgets).grid_items)

\* PopularRepacks::parse_sidebar_popular_repacks
parse_sidebar_popular_repacks(document, section_title) ==
  LET popular_repacks == sidebar_entries(document.widgets, section_title)
  IN  IF popular_repacks = <<>> THEN [ok |-> FALSE, entries |-> <<>>]
      ELSE [ok |-> TRUE, entries |-> popular_repacks]

\* the loop over grid items of fetch_popular_repacks in crawler/fitgirl.rs
RECURSIVE fitgirl_grid_entries(_)
fitgirl_grid_entries(grid_items) ==
  IF grid_items = <<>> THEN <<>>
  ELSE LET element == Head(grid_items)
       IN  IF ~IsSome(element.link) THEN fitgirl_grid_entries(Tail(grid_items))
           ELSE IF ~IsSome(Unwrap(element.link).href)
                THEN fitgirl_grid_entries(Tail(grid_items))
           ELSE << [url |-> Unwrap(Unwrap(element.link).href),
                    title |-> attr_or_empty(Unwrap(element.link).title),
                    image_url |-> image_url_of(element)] >>
                \o fitgirl_grid_entries(Tail(grid_items))

\* fetch_popular_repacks of crawler/fitgirl.rs for "month" and "year", from
\* Html::parse_document on
fitgirl_fetch_popular_repacks(document) ==
  IF IsSome(document.content)
  THEN [ok |-> TRUE, entries |-> fitgirl_grid_entries(Unwrap(document.content).grid_items)]
  ELSE [ok |-> TRUE, entries |-> <<>>]

\* for (index, entry) in popular_entries.iter().enumerate(): the rows saved,
\* rank = index + 1
ranked_rows(popular_entries) ==
  [i \in 1..Len(popular_entries) |->
     [url |-> popular_entries[i].url, title |-> popular_entries[i].title,
      rank |-> i]]

MaxItems == 3

\* the first <a> of an item: any href and any title; the text of the link is
\* its title with blanks around it
PopularLinks ==
  { [href |-> h, title |-> t,
     text |-> IF IsSome(t) THEN <<" ">> \o Unwrap(t) \o <<" ">> ELSE <<" "," ">>]
    : h \in {None, Some(<<>>), Some(<<"/","a","l","p","h","a","/">>), Some(<<"/","b","e","t","a","/">>)},
      t \in {None, Some(<<>>), Some(<<"A","l","p","h","a">>), Some(<<"B","e","t","a">>)} }

PopularItems ==
  { [link |-> None, img |-> None] }
  \cup { [link |-> Some(l), img |-> Some([src |-> Some(<<"a",".","j","p","g">>)])] : l \in PopularLinks }

RECURSIVE ItemLists(_)
ItemLists(n) ==
  IF n = 0 THEN {<<>>}
  ELSE LET shorter == ItemLists(n - 1)
       IN  shorter \cup {Append(l, i) : l \in {m \in shorter : Len(m) = n - 1},
                                        i \in PopularItems}

\* an item with a link and a title that is in every sidebar
SidebarItem ==
  [link |-> Some([href |-> Some(<<"/","g","a","m","m","a","/">>), title |-> Some(<<"G","a","m","m","a">>), text |-> <<"G","a","m","m","a">>]),
   img |-> None]

WeekHeading == <<"M","o","s","t"," ","P","o","p","u","l","a","r"," ","R","e","p","a","c","k","s"," ","o","f"," ","t","h","e"," ","W","e","e","k">>

TodayHeading == <<"T","o","d","a","y","'","s"," ","M","o","s","t"," ","P","o","p","u","l","a","r"," ","R","e","p","a","c","k","s">>

\* the documents: a list of items laid out as a grid, as the award list, or
\* as one of the sidebar sections
PopularDocument(layout, items) ==
  CASE layout = "grid" ->
         [content |-> Some([grid_items |-> items, list |-> None]),
          widgets |-> << [headings |-> <<WeekHeading>>, grid_items |-> <<SidebarItem>>] >>]
    [] layout = "award" ->
         [content |-> Some([grid_items |-> <<>>, list |-> Some(items)]), widgets |-> <<>>]
    [] layout = "no list" ->
         [content |-> Some([grid_items |-> items, list |-> None]), widgets |-> <<>>]
    [] layout = "no content" ->
         [content |-> None,
          widgets |-> << [headings |-> <<WeekHeading>>, grid_items |-> items] >>]
    [] layout = "week" ->
         [content |-> Some([grid_items |-> <<SidebarItem>>, list |-> None]),
          widgets |-> << [headings |-> <<TodayHeading>>, grid_items |-> <<SidebarItem>>],
                         [headings |-> <<WeekHeading>>, grid_items |-> items] >>]
    [] layout = "today" ->
         [content |-> Some([grid_items |-> <<SidebarItem>>, list |-> None]),
          widgets |-> << [headings |-> <<TodayHeading>>, grid_items |-> items],
                         [headings |-> <<WeekHeading>>, grid_items |-> <<SidebarItem>>] >>]

PopularParsers ==
  {"parse_popular_repacks_html", "parse_pink_paw_award_html",
   "parse_week_popular_repacks", "parse_today_popular_repacks",
   "fitgirl.rs fetch_popular_repacks"}

LayoutsOf(parser) ==
  CASE parser = "parse_popular_repacks_html" -> {"grid", "no content"}
    [] parser = "fitgirl.rs fetch_popular_repacks" -> {"grid", "no content"}
    [] parser = "parse_pink_paw_award_html" -> {"award", "no list", "no content"}
    [] parser = "parse_week_popular_repacks" -> {"week", "today"}
    [] parser = "parse_today_popular_repacks" -> {"week", "today"}

ParsePopular(parser, document) ==
  CASE parser = "parse_popular_repacks_html" -> parse_popular_repacks_html(document)
    [] parser = "fitgirl.rs fetch_popular_repacks" -> fitgirl_fetch_popular_repacks(document)
    [] parser = "parse_pink_paw_award_html" -> parse_pink_paw_award_html(document)
    [] parser = "parse_week_popular_repacks" ->
         parse_sidebar_popular_repacks(document, WeekHeading)
    [] parser = "parse_today_popular_repacks" ->
         parse_sidebar_popular_repacks(document, <<"T","o","d","a","y">>)

\* a parser is called on a document
CallPopularParser ==
  /\ popular.pc = "idle"
  /\ \E parser \in PopularParsers : \E layout \in LayoutsOf(parser) :
     \E items \in ItemLists(MaxItems) :
       popular' = [pc |-> "parsed", parser |-> parser, layout |-> layout, items |-> items,
                   out |-> Some(ParsePopular(parser, PopularDocument(layout, items))),
                   ranked |-> <<>>]
  /\ UNCHANGED <<db, run, obs, parse, http, norm, size, detail, shots, conc, cat>>

\* fetch_popular_repacks of popular_commands.rs: `?` on the parser's result,
\* then the entries are saved with their ranks
SavePopularRepacks ==
  /\ popular.pc = "parsed"
  /\ popular' = [popular EXCEPT
                   !.pc = "done",
                   !.ranked = IF Unwrap(popular.out).ok
                              THEN ranked_rows(Unwrap(popular.out).entries)
                              ELSE <<>>]
  /\ UNCHANGED <<db, run, obs, parse, http, norm, size, detail, shots, conc, cat>>

PopularReturn ==
  /\ popular.pc = "done"
  /\ popular' = NoPopular
  /\ UNCHANGED <<db, run, obs, parse, http, norm, size, detail, shots, conc, cat>>

NextPopular ==
  \/ CallPopularParser
  \/ SavePopularRepacks
  \/ PopularReturn

SpecPopular == Init /\ [][NextPopular]_vars

(***************************************************************************)
(* update_database and the background check running at the same time on    *)
(* one SqliteDatabaseService.  conc.mutex is the Mutex<Database> of the     *)
(* service: every method of the service goes through with_db, which locks   *)
(* it for the time of the closure.  Each task is followed call by call:     *)
(* the lock is taken in one step and the statement runs and the lock is     *)
(* dropped in the next.                                                     *)
(***************************************************************************)
\* a database that holds the records of an earlier crawl
CrawledDb ==
  save_repacks_to_db(EmptyDb, crawl_page(FitGirlCrawler_new.blacklist,
                                         [ok |-> TRUE, html |-> <<FragBeta>>]).repacks,
                     [tx_ok |-> TRUE, failed |-> {}])

InitConc ==
  /\ db = CrawledDb
  /\ run = IdleRun
  /\ obs = NoObs
  /\ parse = NoParse
  /\ http = NoHttp
  /\ norm = NoNorm
  /\ cat = NoCat
  /\ size = NoSize
  /\ detail = NoDetail
  /\ shots = NoShots
  /\ popular = NoPopular
  /\ conc = NoConc

\* pages a task is followed over
MaxTaskPages == 2

\* the page limit of a task
LimitOf(p) == IF p = "background" THEN BACKGROUND_PAGE_LIMIT ELSE UPDATE_PAGE_LIMIT

\* the task p with its fields changed
WithTask(p, t) == [conc EXCEPT !.task[p] = t]

\* the task is invoked (the command is called, the timer of the background
\* task fires)
Invoke(p) ==
  /\ conc.task[p].pc = "idle"
  /\ conc' = WithTask(p, [IdleTask EXCEPT !.pc = "latest"])
  /\ UNCHANGED <<db, run, obs, parse, http, norm, size, detail, shots, popular, cat>>

\* with_db: let db = self.db.lock().unwrap()
WithDb(p) ==
  /\ conc.task[p].pc \in {"latest", "check", "save"}
  /\ conc.mutex = "free"
  /\ conc' = [conc EXCEPT !.mutex = p]
  /\ UNCHANGED <<db, run, obs, parse, http, norm, size, detail, shots, popular, cat>>

\* get_latest_game_date() under the lock, and the match on it
GetLatestGameDate(p) ==
  /\ conc.task[p].pc = "latest" /\ conc.mutex = p
  /\ \E query_ok \in BOOLEAN :
       conc' = [conc EXCEPT
                  !.mutex = "free",
                  !.task[p] = IF query_ok /\ has_latest_game_date(db)
                              THEN [@ EXCEPT !.pc = "fetch", !.current_page = 1]
                              ELSE [@ EXCEPT !.pc = "done"]]
  /\ UNCHANGED <<db, run, obs, parse, http, norm, size, detail, shots, popular, cat>>

\* crawler.crawl_page(current_page).await; the runs are followed over their
\* first MaxTaskPages pages
TaskCrawlPage(p) ==
  /\ conc.task[p].pc = "fetch"
  /\ conc.task[p].current_page <= MaxTaskPages
  /\ \E response \in Responses :
       LET res == crawl_page(FitGirlCrawler_new.blacklist, response) IN
       conc' = WithTask(p, IF ends_crawl(res)
                           THEN [conc.task[p] EXCEPT !.pc = "done"]
                           ELSE [conc.task[p] EXCEPT !.pc = "check", !.repacks = res.repacks,
                                                     !.next = 1, !.new_repacks = <<>>,
                                                     !.reported_known = {},
                                                     !.check_failed = {}])
  /\ UNCHANGED <<db, run, obs, parse, http, norm, size, detail, shots, popular, cat>>

\* match check_url_exists(&r.url) { Ok(exists) => !exists, Err(_) => true }
keeps_repack_unchecked(query_ok, exists) == TRUE
keeps_repack(query_ok, exists) == ~query_ok \/ ~exists

\* one turn of the filter: check_url_exists(&r.url) under the lock, the record
\* kept when the URL is unknown or the query fails; reported_known and
\* check_failed note the URLs of the page reported as known and for which the
\* query failed
CheckUrlExists(p) ==
  /\ conc.task[p].pc = "check" /\ conc.mutex = p
  /\ \E query_ok \in BOOLEAN :
       LET t == conc.task[p]
           r == t.repacks[t.next]
           keep == keeps_repack(query_ok, check_url_exists(db, r.url))
       IN  conc' = [conc EXCEPT
                      !.mutex = "free",
                      !.task[p] = [t EXCEPT
                         !.next = @ + 1,
                         !.new_repacks = IF keep THEN Append(@, r) ELSE @,
                         !.reported_known = IF keep THEN @ ELSE @ \cup {r.url},
                         !.check_failed = IF query_ok THEN @ ELSE @ \cup {r.url}]]
  /\ UNCHANGED <<db, run, obs, parse, http, norm, size, detail, shots, popular, cat>>

\* the URLs of the records a save stored
StoredUrls(repacks, outcome) ==
  IF ~outcome.tx_ok THEN {}
  ELSE {repacks[i].url : i \in (1..Len(repacks)) \ outcome.failed}

\* save_repacks_to_db(&new_repacks, &db_service): the whole batch under the
\* lock; then current_page += 1 and the page limit
SaveNewRepacks(p) ==
  /\ conc.task[p].pc = "save" /\ conc.mutex = p
  /\ \E outcome \in SaveOutcomes(conc.task[p].new_repacks) :
       LET t == conc.task[p] IN
       /\ db' = save_repacks_to_db(db, t.new_repacks, outcome)
       /\ conc' = [conc EXCEPT
                     !.mutex = "free",
                     !.task[p] = [t EXCEPT
                        !.pc = IF past_page_limit(t.current_page + 1, LimitOf(p))
                               THEN "done" ELSE "fetch",
                        !.current_page = @ + 1,
                        !.repacks = <<>>, !.next = 0, !.new_repacks = <<>>,
                        !.saved = @ \cup StoredUrls(t.new_repacks, outcome)]]
  /\ UNCHANGED <<run, obs, parse, http, norm, size, detail, shots, popular, cat>>

\* the lock is not held by a task that waits for it, and is free or held by
\* a task in a call of the service
TaskNext(p) ==
  \/ Invoke(p)
  \/ /\ conc.task[p].pc = "check" /\ conc.task[p].next > Len(conc.task[p].repacks)
     /\ conc' = WithTask(p, IF no_new_games(conc.task[p].new_repacks)
                            THEN [conc.task[p] EXCEPT !.pc = "done"]
                            ELSE [conc.task[p] EXCEPT !.pc = "save"])
     /\ UNCHANGED <<db, run, obs, parse, http, norm, size, detail, shots, popular, cat>>
  \/ /\ ~(conc.task[p].pc = "check" /\ conc.task[p].next > Len(conc.task[p].repacks))
     /\ WithDb(p)
  \/ GetLatestGameDate(p)
  \/ TaskCrawlPage(p)
  \/ CheckUrlExists(p)
  \/ SaveNewRepacks(p)

NextConc == \E p \in Tasks : TaskNext(p)

SpecConc == InitConc /\ [][NextConc]_vars

(***************************************************************************)
(* The category query cache (database/cache.rs), the category query        *)
(* (game_queries.rs) and save_repacks_to_db, which clears the cache after  *)
(* a save.  The cache is a set of entries [key, games]; an entry also      *)
(* notes the number of commits the database had seen when its games were   *)
(* read (read_at, history).                                                 *)
(***************************************************************************)
MAX_CACHE_ENTRIES == 100

RECURSIVE insert_sorted(_, _)
insert_sorted(sorted, id) ==
  IF sorted = <<>> THEN <<id>>
  ELSE IF id <= Head(sorted) THEN <<id>> \o sorted
  ELSE <<Head(sorted)>> \o insert_sorted(Tail(sorted), id)

RECURSIVE sort(_)
\* sorted_ids.sort()
sort(ids) == IF ids = <<>> THEN <<>> ELSE insert_sorted(sort(Tail(ids)), Head(ids))

\* get_cache_key: the sorted ids joined by ","; the key is kept as the list
\* of the sorted ids, which the text is one-to-one with
get_cache_key(category_ids) == sort(category_ids)

\* get_from_cache: cache.get(cache_key).cloned()
get_from_cache(cache, cache_key) ==
  IF \E e \in cache : e.key = cache_key
  THEN Some((CHOOSE e \in cache : e.key = cache_key).games)
  ELSE None

\* add_to_cache once the cache is below MAX_CACHE_ENTRIES: cache.insert
cache_insert(cache, cache_key, games, read_at) ==
  {e \in cache : e.key # cache_key} \cup
  {[key |-> cache_key, games |-> games, read_at |-> read_at]}

\* add_to_cache: the caches it can leave, the keys removed from a full cache
\* being the first of the map in its iteration order, which is any order
add_to_cache(cache, cache_key, games, read_at) ==
  IF Cardinality(cache) >= MAX_CACHE_ENTRIES
  THEN {cache_insert(cache \ gone, cache_key, games, read_at) :
          gone \in {g \in SUBSET cache :
                      Cardinality(g) = Cardinality(cache) - MAX_CACHE_ENTRIES + 1}}
  ELSE {cache_insert(cache, cache_key, games, read_at)}

\* clear_category_cache: cache.clear()
clear_category_cache(cache) == {}

\* if saved_count > 0 { Database::clear_category_cache(); }
clears_cache_never(saved_count) == FALSE
clears_cache(saved_count) == saved_count > 0

\* the characters of the dates in the order of their codes
CharCodes ==
  <<" ",",","-",".","/","0","1","2","3","4","5","6","7","8","9",":","A","B","C","D","E","F","G","H","I","J","K","L","M","N","O","P","Q","R","S","T","U","V","W","X","Y","Z","a","b","c","d","e","f","g","h","i","j","k","l","m","n","o","p","q","r","s","t","u","v","w","x","y","z">>

CodeOf(c) == CHOOSE i \in 1..Len(CharCodes) : CharCodes[i] = c

RECURSIVE text_less(_, _)
\* the BINARY collation of SQLite on two texts
text_less(a, b) ==
  IF b = <<>> THEN FALSE
  ELSE IF a = <<>> THEN TRUE
  ELSE IF Head(a) # Head(b) THEN CodeOf(Head(a)) < CodeOf(Head(b))
  ELSE text_less(Tail(a), Tail(b))

\* ORDER BY date DESC: r comes before q; NULL is below every text, rows with
\* the same date are taken in the order of their ids
date_desc_before(r, q) ==
  IF r.date = q.date THEN r.id < q.id
  ELSE IF ~IsSome(q.date) THEN TRUE
  ELSE IF ~IsSome(r.date) THEN FALSE
  ELSE text_less(Unwrap(q.date), Unwrap(r.date))

RECURSIVE order_by_date_desc(_)
order_by_date_desc(rows) ==
  IF rows = {} THEN <<>>
  ELSE LET first == CHOOSE r \in rows : \A q \in rows \ {r} : date_desc_before(r, q)
       IN  <<first>> \o order_by_date_desc(rows \ {first})

\* LIMIT ? OFFSET ? with a limit and an offset that are not negative
limit_offset(games, limit, offset) ==
  SubSeq(games, offset + 1, Min2(Len(games), offset + limit))

\* EXISTS (SELECT 1 FROM magnet_links WHERE magnet_links.repack_id = r.id)
has_magnet(store, r) == \E m \in store.magnet_links : m.repack_id = r.id

\* get_all_games
get_all_games(store, limit, offset) ==
  limit_offset(order_by_date_desc({r \in store.repacks : has_magnet(store, r)}), limit, offset)

\* the SELECT of get_games_by_multiple_categories: the repacks that are in as
\* many of the given categories as ids were given, and have a magnet link
select_by_categories(store, category_ids, limit, offset) ==
  LET ids == {category_ids[i] : i \in 1..Len(category_ids)}
      matched(r) == {g.category_id : g \in {gc \in store.game_categories :
                                               gc.repack_id = r.id /\ gc.category_id \in ids}}
  IN  limit_offset(
        order_by_date_desc({r \in store.repacks :
                              /\ matched(r) # {}
                              /\ Cardinality(matched(r)) = Len(category_ids)
                              /\ has_magnet(store, r)}),
        limit, offset)

\* let should_cache = offset == 0 && limit <= 1000
should_cache(limit, offset) == offset = 0 /\ limit <= 1000

\* cached_games.into_iter().take(min(limit, len))
take(games, limit) == SubSeq(games, 1, Min2(limit, Len(games)))

\* calls of save_repacks_to_db followed
MaxSaves == 2

\* the arguments of the category queries followed
CategoryIdLists == {<<>>, <<1>>, <<2>>, <<2, 1>>, <<1, 1>>}
LimitsAndOffsets ==
  {[limit |-> 50, offset |-> 0], [limit |-> 1, offset |-> 0],
   [limit |-> 2000, offset |-> 0], [limit |-> 50, offset |-> 1]}

\* the batches handed to save_repacks_to_db: the records of a page
Batches ==
  {crawl_page(FitGirlCrawler_new.blacklist, [ok |-> TRUE, html |-> p]).repacks :
     p \in SitePages}

InitCat ==
  /\ db = CrawledDb
  /\ run = IdleRun
  /\ obs = NoObs
  /\ parse = NoParse
  /\ http = NoHttp
  /\ norm = NoNorm
  /\ size = NoSize
  /\ detail = NoDetail
  /\ shots = NoShots
  /\ popular = NoPopular
  /\ conc = NoConc
  /\ cat = NoCat

\* the command get_games_by_multiple_categories is invoked
CallCategoryQuery ==
  /\ cat.query.pc = "idle"
  /\ \E category_ids \in CategoryIdLists : \E lo \in LimitsAndOffsets :
       cat' = [cat EXCEPT !.query = [IdleQuery EXCEPT
                 !.pc = "lock", !.category_ids = category_ids,
                 !.limit = lo.limit, !.offset = lo.offset]]
  /\ UNCHANGED <<db, run, obs, parse, http, norm, size, detail, shots, popular, conc>>

\* with_db of the query: self.db.lock()
QueryWithDb ==
  /\ cat.query.pc = "lock" /\ cat.mutex = "free"
  /\ cat' = [cat EXCEPT !.mutex = "query", !.query.pc = "lookup"]
  /\ UNCHANGED <<db, run, obs, parse, http, norm, size, detail, shots, popular, conc>>

\* get_games_by_multiple_categories to the end of "Check cache first"
QueryLookup ==
  /\ cat.query.pc = "lookup"
  /\ LET q == cat.query
         hit == get_from_cache(cat.cache, get_cache_key(q.category_ids))
     IN  cat' = IF q.category_ids = <<>>
                THEN [cat EXCEPT !.mutex = "free", !.query.pc = "done",
                                 !.query.result = Some(get_all_games(db, q.limit, q.offset))]
                ELSE IF should_cache(q.limit, q.offset) /\ IsSome(hit)
                THEN [cat EXCEPT !.mutex = "free", !.query.pc = "done",
                                 !.query.result = Some(take(Unwrap(hit), q.limit))]
                ELSE [cat EXCEPT !.query.pc = "select"]
  /\ UNCHANGED <<db, run, obs, parse, http, norm, size, detail, shots, popular, conc>>

\* the SELECT, then add_to_cache and Ok(games); the lock is dropped on return
QuerySelect ==
  /\ cat.query.pc = "select"
  /\ LET q == cat.query
         games == select_by_categories(db, q.category_ids, q.limit, q.offset)
     IN  cat' = [cat EXCEPT !.query.pc = "insert", !.query.games = games]
  /\ UNCHANGED <<db, run, obs, parse, http, norm, size, detail, shots, popular, conc>>

QueryInsert ==
  /\ cat.query.pc = "insert"
  /\ LET q == cat.query IN
     \E cache \in IF should_cache(q.limit, q.offset) /\ q.games # <<>>
                  THEN add_to_cache(cat.cache, get_cache_key(q.category_ids), q.games,
                                    cat.commits)
                  ELSE {cat.cache} :
       cat' = [cat EXCEPT !.mutex = "free", !.cache = cache, !.query.pc = "done",
                          !.query.result = Some(q.games)]
  /\ UNCHANGED <<db, run, obs, parse, http, norm, size, detail, shots, popular, conc>>

QueryReturn ==
  /\ cat.query.pc = "done"
  /\ cat' = [cat EXCEPT !.query = IdleQuery]
  /\ UNCHANGED <<db, run, obs, parse, http, norm, size, detail, shots, popular, conc>>

\* save_repacks_to_db is called by s
CallSave(s) ==
  /\ cat.saver[s].pc = "idle" /\ cat.calls < MaxSaves
  /\ \E repacks \in Batches :
       cat' = [cat EXCEPT !.calls = @ + 1,
                          !.saver[s] = [IdleSaver EXCEPT !.pc = "lock", !.repacks = repacks]]
  /\ UNCHANGED <<db, run, obs, parse, http, norm, size, detail, shots, popular, conc>>

\* db_service.with_connection: self.db.lock()
SaveWithConnection(s) ==
  /\ cat.saver[s].pc = "lock" /\ cat.mutex = "free"
  /\ cat' = [cat EXCEPT !.mutex = s, !.saver[s].pc = "tx"]
  /\ UNCHANGED <<db, run, obs, parse, http, norm, size, detail, shots, popular, conc>>

\* the closure of with_connection: the transaction, saved_count, tx.commit();
\* a commit that fails makes save_repacks_to_db return Err at once
SaveCommit(s) ==
  /\ cat.saver[s].pc = "tx"
  /\ \E outcome \in SaveOutcomes(cat.saver[s].repacks) :
       LET repacks == cat.saver[s].repacks
           saved_count == Len(repacks) - Cardinality(outcome.failed)
       IN
       /\ db' = save_repacks_to_db(db, repacks, outcome)
       /\ cat' = IF ~outcome.tx_ok
                 THEN [cat EXCEPT !.mutex = "free", !.saver[s].pc = "done"]
                 ELSE [cat EXCEPT !.mutex = "free",
                                  !.commits = IF saved_count > 0 THEN @ + 1 ELSE @,
                                  !.saver[s].pc = "clear",
                                  !.saver[s].saved_count = saved_count,
                                  !.saver[s].commit = IF saved_count > 0 THEN cat.commits + 1
                                                      ELSE 0]
  /\ UNCHANGED <<run, obs, parse, http, norm, size, detail, shots, popular, conc>>

\* if saved_count > 0 { Database::clear_category_cache(); }
SaveClear(s) ==
  /\ cat.saver[s].pc = "clear"
  /\ cat' = [cat EXCEPT
               !.cache = IF clears_cache(cat.saver[s].saved_count)
                         THEN clear_category_cache(@) ELSE @,
               !.saver[s].pc = "done"]
  /\ UNCHANGED <<db, run, obs, parse, http, norm, size, detail, shots, popular, conc>>

\* save_repacks_to_db returns
SaveReturn(s) ==
  /\ cat.saver[s].pc = "done"
  /\ cat' = [cat EXCEPT
               !.returned = IF cat.saver[s].commit > @ THEN cat.saver[s].commit ELSE @,
               !.saver[s] = IdleSaver]
  /\ UNCHANGED <<db, run, obs, parse, http, norm, size, detail, shots, popular, conc>>

NextCat ==
  \/ CallCategoryQuery
  \/ QueryWithDb
  \/ QueryLookup
  \/ QuerySelect
  \/ QueryInsert
  \/ QueryReturn
  \/ \E s \in Savers : CallSave(s)
  \/ \E s \in Savers : SaveWithConnection(s)
  \/ \E s \in Savers : SaveCommit(s)
  \/ \E s \in Savers : SaveClear(s)
  \/ \E s \in Savers : SaveReturn(s)

SpecCat == InitCat /\ [][NextCat]_vars

(***************************************************************************)
(* Properties.                                                             *)
(***************************************************************************)
\* the pages first, first + 1, ... in this order
Ascending(pages, first) == \A k \in 1..Len(pages) : pages[k] = first + k - 1

\* the batch the operation in progress is about to hand to save_repacks_to_db
SavingBatch ==
  IF run.pc # "save" THEN <<>>
  ELSE IF run.op \in {"update_database", "background"} THEN run.new_repacks
  ELSE run.repacks

\* C1 as stated: update_database fetches pages 1, 2, ... in order, at most 10
\* of them, and fetches no page after the first page on which the existence
\* check reported no URL as unknown.
C1_StopsAtFirstPageWithNoUnknownUrl ==
  run.op = "update_database" =>
    /\ Ascending(obs.fetched, 1)
    /\ Len(obs.fetched) <= 10
    /\ obs.no_unknown_page # 0 => Len(obs.fetched) = obs.no_unknown_page

\* C1 amended: update_database fetches pages 1, 2, ... in order, at most 10 of
\* them, and stops at the first page on which no record is new, a record being
\* new when the existence check reports its URL as unknown or fails.
C1_StopsAtFirstPageWithNoNewRecord ==
  run.op = "update_database" =>
    /\ Ascending(obs.fetched, 1)
    /\ Len(obs.fetched) <= 10
    /\ run.pc = "fetch" => Len(obs.fetched) < 10
    /\ obs.no_new_page # 0 => Len(obs.fetched) = obs.no_new_page /\ run.pc = "done"
    /\ obs.no_unknown_page # 0 /\ obs.no_new_page = 0 => obs.no_unknown_page <= Len(obs.fetched)

\* an update that found new records on page 1 has stopped at page 2, which
\* was not empty but held no new record
C1_Witness ==
  /\ run.op = "update_database" /\ run.pc = "done"
  /\ obs.no_new_page = 2 /\ obs.empty_page = 0 /\ obs.failed_page = 0
  /\ obs.fetched = <<1, 2>>

\* C2: storage holds at most one repack row per url.
C2_OneRowPerUrl ==
  \A r1 \in db.repacks : \A r2 \in db.repacks : r1.url = r2.url => r1 = r2

\* /alpha/ has been saved from both of its articles: the row carries the
\* title of the later one and a link only the earlier one has
C2_Witness ==
  \E row \in db.repacks :
    /\ row.url = <<"/","a","l","p","h","a","/">> /\ row.title = <<"A","l","p","h","a"," ","-"," ","D","e","l","u","x","e"," ","E","d","i","t","i","o","n">>
    /\ \E m \in db.magnet_links : m.repack_id = row.id /\ m.source = <<"R","u","T","o","r">>
    /\ Cardinality(db.repacks) = 2

\* the page limit of the full or paged crawl in progress, if it has one
PageLimit ==
  CASE run.op = "start_crawler" -> Some(MAX_PAGES)
    [] run.op = "crawl_multiple_pages" -> run.max_pages
    [] run.op = "crawl_pages" -> run.max_pages

\* the first page of the run in progress that yielded no record or whose
\* fetch failed, 0 when there is none
FirstEndPage ==
  IF obs.failed_page = 0 THEN obs.empty_page
  ELSE IF obs.empty_page = 0 THEN obs.failed_page
  ELSE IF obs.failed_page < obs.empty_page THEN obs.failed_page ELSE obs.empty_page

\* C3 as stated, for the operations op: pages are fetched in ascending order
\* from the start page, at most pageLimit of them, and none after the first
\* page that yields zero records or whose fetch fails.
EndsAtFirstEmptyOrFailedPage(ops) ==
  run.op \in ops =>
    /\ Ascending(obs.fetched, IF run.op = "crawl_multiple_pages" THEN run.start_page ELSE 1)
    /\ IsSome(PageLimit) => Len(obs.fetched) <= Unwrap(PageLimit)
    /\ FirstEndPage # 0 => obs.fetched[Len(obs.fetched)] = FirstEndPage

\* C3: every full or paged crawl, the CLI's crawl_pages included, ends at the
\* first page that yields zero records or whose fetch fails.
C3_EveryCrawlEndsAtFirstEmptyOrFailedPage ==
  EndsAtFirstEmptyOrFailedPage({"start_crawler", "crawl_multiple_pages", "crawl_pages"})

\* crawl_multiple_pages(2, Some(2)) has fetched pages 2 and 3, both with
\* records, and returned
C3_Witness ==
  /\ run.op = "crawl_multiple_pages" /\ run.pc = "done"
  /\ run.max_pages = Some(2) /\ obs.fetched = <<2, 3>> /\ obs.failed_page = 0
  /\ obs.empty_page = 0

\* C4, the state after a failed fetch: the crawl has ended at page k, every
\* page was requested once, and the result is Ok and reports the records
\* handed on before k.
C4_EndedAtFailedPage ==
  run.op \in {"start_crawler", "crawl_multiple_pages", "update_database", "background"}
    /\ obs.failed_page # 0 =>
      /\ run.pc = "done"
      /\ Ascending(obs.fetched, IF run.op = "crawl_multiple_pages" THEN run.start_page ELSE 1)
      /\ obs.fetched[Len(obs.fetched)] = obs.failed_page
      /\ IsSome(run.result) /\ Unwrap(run.result).ok
      /\ Unwrap(run.result).total_games =
           IF run.op = "crawl_multiple_pages" THEN Len(run.all_repacks) ELSE obs.accepted
      /\ run.op = "crawl_multiple_pages" => Unwrap(run.result).repacks = run.all_repacks
      /\ run.op \in {"start_crawler", "update_database"} =>
           Unwrap(run.result).current_page = obs.failed_page - 1

\* C4, the steps at and after a failed fetch: they leave storage as it is.
C4_FailedFetchKeepsStorage ==
  run'.op \in {"start_crawler", "crawl_multiple_pages", "update_database", "background"}
    /\ obs'.failed_page # 0 => db' = db

\* C4: when the fetch of page k fails, start_crawler, crawl_multiple_pages and
\* the incremental updates request nothing more, keep what is stored and
\* return a normal result reporting what they had handed on.
C4_FailedFetchEndsCrawlNormally ==
  []C4_EndedAtFailedPage /\ [][C4_FailedFetchKeepsStorage]_vars

\* start_crawler saved two pages, the fetch of page 3 failed
C4_Witness ==
  /\ run.op = "start_crawler" /\ run.pc = "done"
  /\ obs.failed_page = 3 /\ obs.accepted > 0 /\ db.repacks # {}
  /\ Unwrap(run.result).current_page = 2

\* C5 as stated: no full crawl ever holds the records of more than one page
\* that it has not handed to storage, and none is held when a page is fetched.
C5_NeverHoldsMoreThanOnePage ==
  run.op \in {"start_crawler", "crawl_multiple_pages"} =>
    /\ obs.held <= 1
    /\ run.pc = "fetch" => obs.held = 0

\* C5 amended, the state: start_crawler hands each page's batch to
\* save_repacks_to_db before it fetches the next page; crawl_multiple_pages
\* hands nothing on and holds every page's records until it returns.
C5_StreamsOrAccumulates ==
  /\ run.op = "start_crawler" =>
       /\ obs.held = IF run.pc = "save" THEN 1 ELSE 0
       /\ run.pc = "fetch" => obs.handed = Len(obs.fetched)
       /\ run.pc = "save" => obs.handed = Len(obs.fetched) - 1
  /\ run.op = "crawl_multiple_pages" =>
       /\ obs.handed = 0
       /\ obs.held = Len(obs.fetched) - (IF FirstEndPage # 0 THEN 1 ELSE 0)

\* C5 amended, the steps: no step removes a stored row or changes its url.
C5_RowsStay ==
  \A row \in db.repacks : \E kept \in db'.repacks : kept.id = row.id /\ kept.url = row.url

\* C5 amended: start_crawler emits page by page, crawl_multiple_pages
\* accumulates, and what is stored stays stored.
C5_EmittedBatchesStay ==
  []C5_StreamsOrAccumulates /\ [][C5_RowsStay]_vars

\* start_crawler is about to fetch page 3, the batches of pages 1 and 2 handed on
C5_Witness ==
  /\ run.op = "start_crawler" /\ run.pc = "fetch" /\ run.current_page = 3
  /\ obs.handed = 2 /\ obs.held = 0 /\ Cardinality(db.repacks) = 2

Extracts(a) ==
  a.title_elem /\ IsSome(a.link) /\ IsSome(Unwrap(a.link).href) /\ IsSome(a.content)

\* p occurs in s when the case of s is ignored
OccursIgnoringCase(p, s) ==
  \E k \in 0..(Len(s) - Len(p)) : \A j \in 1..Len(p) : LowerChar(s[k + j]) = p[j]

\* some pattern of the blacklist in effect occurs in the article's URL or title
Excluded(a) ==
  LET patterns == load_blacklist(parse.file)
  IN  \E k \in 1..Len(patterns) :
        \/ OccursIgnoringCase(patterns[k], Unwrap(Unwrap(a.link).href))
        \/ OccursIgnoringCase(patterns[k], trim(Unwrap(a.link).text))

\* the targets of the magnet anchors of an article, in document order
MagnetTargets(a) ==
  LET hits == SelectSeq(Unwrap(a.content).anchors,
                        LAMBDA x : Len(x.href) >= 7 /\ SubSeq(x.href, 1, 7) = MagnetPrefix)
  IN  [i \in 1..Len(hits) |-> hits[i].href]

\* C7: crawl_page returns one record for each article, in page order, that
\* extraction succeeds for and the blacklist does not exclude, each with its
\* URL, trimmed title and magnet links; the other articles yield nothing and
\* stop nothing.
C7_PageYieldsItsGoodArticlesInOrder ==
  IsSome(parse.out) /\ Unwrap(parse.out).ok =>
    LET out == Unwrap(parse.out).repacks
        good == SelectSeq(parse.html, LAMBDA a : Extracts(a) /\ ~Excluded(a))
    IN  /\ Len(out) = Len(good)
        /\ \A k \in 1..Len(good) :
             /\ out[k].url = Unwrap(Unwrap(good[k].link).href)
             /\ out[k].title = trim(Unwrap(good[k].link).text)
             /\ [i \in 1..Len(out[k].magnet_links) |-> out[k].magnet_links[i].magnet]
                  = MagnetTargets(good[k])

\* a page of two articles, the first with a blacklisted URL: one record, with
\* its two magnet links under their source labels
C7_Witness ==
  /\ parse.file = None /\ parse.html = <<FragUpcoming, FragAlpha>>
  /\ IsSome(parse.out) /\ Unwrap(parse.out).ok
  /\ Len(Unwrap(parse.out).repacks) = 1
  /\ Unwrap(parse.out).repacks[1].magnet_links =
       << [source |-> <<"1","3","3","7","x">>, magnet |-> <<"m","a","g","n","e","t",":","a","1">>],
          [source |-> <<"R","u","T","o","r">>, magnet |-> <<"m","a","g","n","e","t",":","a","2">>] >>

\* C8: a record is left out of crawl_page's result exactly when some pattern
\* occurs, case ignored, in its URL or in its title; the pattern
\* the-genesis-order excludes the URL /THE-GENESIS-ORDER/.
C8_ExcludedIffPatternOccurs ==
  /\ is_blacklisted(<< <<"t","h","e","-","g","e","n","e","s","i","s","-","o","r","d","e","r">> >>, <<"/","T","H","E","-","G","E","N","E","S","I","S","-","O","R","D","E","R","/">>, <<"G","e","n","e","s","i","s">>)
  /\ IsSome(parse.out) /\ Unwrap(parse.out).ok =>
       LET out == Unwrap(parse.out).repacks IN
       \A i \in 1..Len(parse.html) :
         Extracts(parse.html[i]) =>
           ((\E k \in 1..Len(out) : Some(out[k]) = extract_repack_from_article(parse.html[i]))
              <=> ~Excluded(parse.html[i]))

\* under the file that lists The-Genesis-Order, the article at
\* /THE-GENESIS-ORDER/ is left out and the one next to it is kept
C8_Witness ==
  /\ IsSome(parse.file) /\ parse.html = <<FragGenesis, FragAlpha>>
  /\ IsSome(parse.out) /\ Unwrap(parse.out).ok
  /\ Len(Unwrap(parse.out).repacks) = 1
  /\ Unwrap(parse.out).repacks[1].url = <<"/","a","l","p","h","a","/">>

\* the clean name the save in progress stores for a title
ExpectedCleanName(title) ==
  IF run.op = "crawl_pages" THEN CleanNameMonolithic(title) ELSE CleanName(title)

\* C9, one step: when a step changes storage, each record of the batch being
\* saved either has its row carry exactly the record's values, a null where the
\* record has none, under the id the url had before, or was rejected and left
\* the rows of its url as they were.
C9_RowCarriesTheRecord ==
  db' # db =>
    \A i \in 1..Len(SavingBatch) :
      LET r == SavingBatch[i]
          before == {row \in db.repacks : row.url = r.url}
          after == {row \in db'.repacks : row.url = r.url}
      IN  \/ after = before
          \/ /\ \A row \in after :
                  /\ row.title = r.title
                  /\ row.clean_name = ExpectedCleanName(r.title)
                  /\ row.genres_tags = r.genres_tags
                  /\ row.company = r.company
                  /\ row.languages = r.languages
                  /\ row.original_size = r.original_size
                  /\ row.repack_size = r.repack_size
                  /\ row.size = parse_size_to_mb(r.repack_size)
                  /\ row.date = r.date
                  /\ row.image_url = r.image_url
                  /\ \A old \in before : row.id = old.id
             /\ after # {}

\* C9: saving a record whose url is stored overwrites every field of the row,
\* with null where the record lacks the field, and keeps the row's id.
C9_SaveOverwritesEveryField == [][C9_RowCarriesTheRecord]_vars

\* /alpha/ was stored with all its details and then saved again without them:
\* row 1 now holds nulls, while the category of the first save is still there
C9_Witness ==
  /\ \E row \in db.repacks :
       /\ row.url = <<"/","a","l","p","h","a","/">> /\ row.id = 1
       /\ row.company = None /\ row.genres_tags = None /\ row.size = None
       /\ row.date = None /\ row.image_url = None
  /\ \E category \in db.categories : category.name = <<"A","c","t","i","o","n">>

\* C10, the state: no two magnet links have the same repack and source.
C10_OneLinkPerSource ==
  \A m1 \in db.magnet_links : \A m2 \in db.magnet_links :
    m1.repack_id = m2.repack_id /\ m1.source = m2.source => m1 = m2

\* the last link of the record with the source label source
LastWithSource(links, source) ==
  links[CHOOSE i \in 1..Len(links) :
          /\ links[i].source = source
          /\ \A j \in (i + 1)..Len(links) : links[j].source # source]

\* C10, one step: when a step changes storage, each record of the batch being
\* saved either has, for each of its source labels, the magnet URI of its last
\* link with that label stored, or was rejected and left its rows as they were.
C10_LinkIsReplaced ==
  db' # db =>
    \A i \in 1..Len(SavingBatch) :
      LET r == SavingBatch[i]
          ids(store) == {row.id : row \in {row \in store.repacks : row.url = r.url}}
          links(store) == {m \in store.magnet_links : m.repack_id \in ids(store)}
      IN  \/ links(db') = links(db) /\ ids(db') = ids(db)
          \/ \A k \in 1..Len(r.magnet_links) :
               \E m \in links(db') :
                 /\ m.source = r.magnet_links[k].source
                 /\ m.magnet = LastWithSource(r.magnet_links, m.source).magnet

\* C10: storage holds at most one magnet link per (repack, source), and a
\* save replaces the magnet URI of a link that exists, also when two links of
\* one record carry the same source label.
C10_OneLinkPerRepackAndSource ==
  []C10_OneLinkPerSource /\ [][C10_LinkIsReplaced]_vars

\* /alpha/ saved from its first article, then from the one whose two links
\* share the label 1337x: the label holds the last URI, RuTor is still there
C10_Witness ==
  \E row \in db.repacks :
    /\ row.url = <<"/","a","l","p","h","a","/">>
    /\ \E m \in db.magnet_links :
         m.repack_id = row.id /\ m.source = <<"1","3","3","7","x">> /\ m.magnet = <<"m","a","g","n","e","t",":","a","4">>
    /\ \E m \in db.magnet_links :
         m.repack_id = row.id /\ m.source = <<"R","u","T","o","r">> /\ m.magnet = <<"m","a","g","n","e","t",":","a","2">>

\* C11: every request on the wire comes directly after the wait of the crawl
\* delay, whatever operation sent it.
C11_EveryRequestFollowsTheDelay ==
  \A i \in 1..Len(http.log) :
    http.log[i].e = "get" =>
      /\ i > 1
      /\ http.log[i - 1].e = "sleep"
      /\ http.log[i - 1].secs = CRAWL_DELAY_SECS

\* crawl_page(2) has waited the delay and then requested /page/2/
C11_Witness ==
  /\ http.op = "crawl_page" /\ http.pc = "text"
  /\ http.log = << [e |-> "sleep", secs |-> CRAWL_DELAY_SECS, url |-> <<>>],
                   [e |-> "get", secs |-> 0, url |-> <<"page", 2>>] >>

\* C12: a finished operation whose request was answered with a non-2xx
\* status returns an error and has handed no body to the parser; a request
\* that failed returns an error; no operation sends more than one request.
C12_NonSuccessStatusIsAnError ==
  /\ http.pc = "done" /\ IsSome(http.response)
       /\ ~is_success(Unwrap(http.response).status) =>
       /\ ~Unwrap(http.result).ok
       /\ http.parsed = None
  /\ http.pc = "done" /\ http.log # <<>> /\ ~IsSome(http.response) =>
       ~Unwrap(http.result).ok
  /\ Cardinality({i \in 1..Len(http.log) : http.log[i].e = "get"}) <= 1

\* crawl_page(1) was answered with status 404 and an error page
C12_Witness ==
  /\ http.op = "crawl_page" /\ http.pc = "done" /\ http.url = <<>>
  /\ http.response = Some([status |-> 404, html |-> <<>>])

\* a crawl operation is in its loop
InLoop == run.pc \notin {"idle", "done"}

HasPageLimit == run.op = "crawl_multiple_pages" => IsSome(run.max_pages)

C13_StillCrawling ==
  /\ run.op = "crawl_multiple_pages" /\ run.max_pages = None /\ run.pc = "fetch"
  /\ Len(obs.fetched) = PageCap /\ FirstEndPage = 0


\* the page at which one of the stop conditions of the incremental update
\* (fetch error, empty page, page with zero new records) was met, 0 if none
StopPage ==
  IF obs.failed_page # 0 THEN obs.failed_page
  ELSE IF obs.empty_page # 0 THEN obs.empty_page
  ELSE obs.no_new_page

\* a finished run fetched pages 1..n in order, ended at the first page that
\* met a stop condition or else after `limit` pages, and handed every page
\* before that to save_repacks_to_db
StopsAsUpdate(limit) ==
  LET n == Len(obs.fetched) IN
  /\ Ascending(obs.fetched, 1)
  /\ n <= limit
  /\ IF StopPage # 0
     THEN StopPage = n /\ obs.handed = n - 1
     ELSE (n = 0 \/ n = limit) /\ obs.handed = n

IncrementalRunDone == run.op \in {"update_database", "background"} /\ run.pc = "done"

\* C14 (as stated): a background run is an invocation of update_database: it
\* fetches the same pages, saves the same batches and stops for the same
\* reasons, the 10-page safety limit included.
C14_BackgroundRunIsUpdateDatabase ==
  IncrementalRunDone => StopsAsUpdate(UPDATE_PAGE_LIMIT)

\* C14 (amended): a background run fetches, filters, saves and stops as
\* update_database does, except that its safety limit is 5 pages, not 10.
C14_BackgroundRunIsUpdateUpToItsLimit ==
  IncrementalRunDone =>
    StopsAsUpdate(IF run.op = "background" THEN BACKGROUND_PAGE_LIMIT
                  ELSE UPDATE_PAGE_LIMIT)

\* a background run that saved five pages of new records and ended at its limit
C14_Witness ==
  /\ run.op = "background" /\ run.pc = "done"
  /\ Len(obs.fetched) = BACKGROUND_PAGE_LIMIT
  /\ obs.handed = BACKGROUND_PAGE_LIMIT
  /\ StopPage = 0

\* storage has a latest known date: some record carries a date and has a
\* download link
LatestDateExists ==
  \E row \in db.repacks :
    /\ row.date # None
    /\ {m \in db.magnet_links : m.repack_id = row.id} # {}

\* an incremental run (update_database or a background check) is invoked
IncrementalRunStarts ==
  run.op = "idle" /\ run'.op \in {"update_database", "background"}

\* a page is fetched by an incremental run
IncrementalRunFetches ==
  run'.op \in {"update_database", "background"} /\ obs'.fetched # obs.fetched

\* C15 step: without a latest date the run ends at once, with storage as it was
\* and nothing fetched, update_database returning "No existing data" with zero
\* pages and zero games; the loop is entered only with a latest date, and pages
\* are fetched only in the loop.
C15_SkipsWithoutLatestDate ==
  /\ IncrementalRunStarts /\ ~LatestDateExists =>
       /\ run'.pc = "done"
       /\ db' = db
       /\ obs'.fetched = <<>>
       /\ run'.op = "update_database" /\ Unwrap(run'.result).ok =>
            run'.result = Some(Progress(0, 0, "No existing data"))
  /\ IncrementalRunStarts /\ run'.pc # "done" => LatestDateExists
  /\ IncrementalRunFetches =>
       run.op = run'.op /\ run.pc = "fetch" /\ Len(obs'.fetched) = Len(obs.fetched) + 1

\* C15: when storage reports no latest date, update_database and the background
\* run fetch no page and write nothing, and update_database returns
\* "No existing data" with zero pages and zero games; an incremental run
\* fetches pages only when a latest date exists.
C15_NoLatestDateNoIncrementalRun == [][C15_SkipsWithoutLatestDate]_vars

\* update_database returned "No existing data" from a storage that holds
\* records, none of them with both a date and a download link
C15_Witness ==
  /\ run.op = "update_database" /\ run.pc = "done"
  /\ run.result = Some(Progress(0, 0, "No existing data"))
  /\ db.repacks # {}
  /\ obs.fetched = <<>>

\* the step is one call of save_repacks_to_db that logged a rejected record
SaveRejectsARecord == obs'.handed = obs.handed + 1 /\ obs'.rejected # {}

\* the record of the batch that was saved last under the url of record i
LastSavedAs(batch, rejected, i) ==
  LET same == {j \in 1..Len(batch) : j \notin rejected /\ batch[j].url = batch[i].url}
  IN  batch[CHOOSE j \in same : \A k \in same : k <= j]

\* the record is in storage: one row of its url with its title, date and
\* sizes, and a link for each of its download sources
Stored(store, r) ==
  \E row \in store.repacks :
    /\ row.url = r.url /\ row.title = r.title /\ row.date = r.date
    /\ row.repack_size = r.repack_size /\ row.original_size = r.original_size
    /\ \A k \in 1..Len(r.magnet_links) :
         \E m \in store.magnet_links :
           m.repack_id = row.id /\ m.source = r.magnet_links[k].source

\* the operation is still in its loop, one page further, or at its page limit
CrawlGoesOn ==
  /\ run'.op = run.op
  /\ run'.current_page = run.current_page + 1
  /\ \/ run'.pc = "fetch"
     \/ /\ run'.pc = "done"
        /\ run.op \in {"update_database", "background"}
        /\ run'.current_page > (IF run.op = "background" THEN BACKGROUND_PAGE_LIMIT
                                 ELSE UPDATE_PAGE_LIMIT)

\* C16 step: a save call that rejected some record of its batch still saved
\* every other record, returned Ok, and left the crawl in its loop.
C16_OtherRecordsAreSaved ==
  SaveRejectsARecord =>
    /\ \A i \in 1..Len(SavingBatch) :
         i \notin obs'.rejected =>
           Stored(db', LastSavedAs(SavingBatch, obs'.rejected, i))
    /\ obs'.accepted = obs.accepted + Len(SavingBatch)
    /\ CrawlGoesOn

\* C16: a failure while saving one record of a batch degrades to a partial
\* result: every other record of the batch is saved, the call returns
\* success, and the crawl goes on.
C16_RejectedRecordLeavesTheRestSaved == [][C16_OtherRecordsAreSaved]_vars

\* start_crawler handed a page of two records to an empty storage, the first
\* was rejected, the second is stored, and the crawl is about to fetch page 2
C16_Witness ==
  /\ run.op = "start_crawler" /\ run.pc = "fetch" /\ run.current_page = 2
  /\ obs.rejected = {1} /\ obs.accepted = 2
  /\ Cardinality(db.repacks) = 1

\* C17: clean_game_title is idempotent: called on a value it returned, it
\* returns that value.
C17_CleanGameTitleIsIdempotent ==
  norm.pc = "done" /\ norm.calls = 2 => norm.result = Some(norm.input)

\* the first call returned "Elden Ring GOG", the second call, given that
\* value, returned "Elden Ring" (both copies)
C17_Witness ==
  /\ norm.pc = "done" /\ norm.calls = 2
  /\ norm.imp = "crawler.rs"
  /\ norm.input = <<"E","l","d","e","n"," ","R","i","n","g"," ","G","O","G">>
  /\ norm.result = Some(<<"E","l","d","e","n"," ","R","i","n","g">>)

\* C18: clean_game_title returns a value for every title it is called on, and
\* returns a plain game name exactly as given.
C18_CleanTitleIsReturnedUnchanged ==
  norm.pc = "done" =>
    /\ norm.result # None
    /\ norm.input \in CleanTitles => norm.result = Some(norm.input)

\* clean_game_title of crawler.rs was called on "Cyberpunk 2077" and returned it
C18_Witness ==
  /\ norm.pc = "done" /\ norm.calls = 1 /\ norm.imp = "crawler.rs"
  /\ norm.input = <<"C","y","b","e","r","p","u","n","k"," ","2","0","7","7">>
  /\ norm.result = Some(<<"C","y","b","e","r","p","u","n","k"," ","2","0","7","7">>)

\* the plain game name a title starts with
NameOf(title) == CHOOSE name \in CleanTitles : starts_with(title, name)

\* the first call has returned
FirstCallDone == norm.pc = "done" /\ norm.calls = 1

\* C19 (as stated): a plain name followed by noise suffixes, one or several,
\* normalises back to the name.
C19_SuffixesNormaliseBack ==
  FirstCallDone /\ norm.imp = "crawler.rs" => norm.result = Some(NameOf(norm.input))

\* clean_game_title of crawler.rs returned "Elden Ring GOG" for the name
\* followed by a platform marker and a hotfix suffix
C19_Witness ==
  /\ FirstCallDone /\ norm.imp = "crawler.rs"
  /\ norm.input = <<"E","l","d","e","n"," ","R","i","n","g"," ","G","O","G"," ","ndash"," ","H","o","t","f","i","x"," ","5">>
  /\ norm.result = Some(<<"E","l","d","e","n"," ","R","i","n","g"," ","G","O","G">>)

\* the place of a pattern in the order in which the code applies its
\* patterns, and whether the call in progress has applied it
Position(name) == CHOOSE k \in 1..Len(RuleNames) : RuleNames[k] = name
Applied(name) == norm.rule > Position(name)

\* a call is under way
Cleaning == norm.pc \in {"rules", "tidy", "done"}

\* the DLC / bonus-clause patterns, the edition patterns
DlcPatterns == {"dlc_regex", "dlc_regex2", "dlc_content_regex"}
EditionPatterns == {"edition_regex", "edition_comma_regex"}

\* an edition suffix that edition_regex or edition_comma_regex recognises
KnownEdition(s) ==
  \E e \in {<<"D","e","l","u","x","e"," ","E","d","i","t","i","o","n">>, <<"P","r","e","m","i","u","m"," ","E","d","i","t","i","o","n">>, <<"U","l","t","i","m","a","t","e"," ","E","d","i","t","i","o","n">>} : contains(s, e)

\* every dash of the title is in the dash class of the copy at work
DashesKnown ==
  \A i \in 1..Len(norm.input) : norm.input[i] = "ndash" => "ndash" \in DashOf[norm.imp]

MbPerUnit(unit) ==
  IF unit = <<"M","B">> THEN 1 ELSE IF unit = <<"G","B">> THEN 1024 ELSE 1024 * 1024

RECURSIVE TenTo(_)
TenTo(k) == IF k = 0 THEN 1 ELSE 10 * TenTo(k - 1)

\* the whole megabytes of a number of SizeNumbers in a unit, towards zero
WholeMb(number, unit) ==
  LET q == (number.num * MbPerUnit(unit)) \div TenTo(number.scale)
  IN  IF number.neg THEN 0 - q ELSE q

SizeCalled == size.pc = "done"

SizeOfParts == Unwrap(size.parts)

IsRange == SizeCalled /\ IsSome(size.parts) /\ IsSome(SizeOfParts.first)

IsSingle == SizeCalled /\ IsSome(size.parts) /\ ~IsSome(SizeOfParts.first)

\* the candidate of the first side of a range: in its own unit, else in the
\* unit of the second side
FirstCandidate(p) ==
  LET f == Unwrap(p.first)
  IN  IF IsSome(f.unit) THEN {WholeMb(f.number, Unwrap(f.unit))}
      ELSE IF IsSome(p.second.unit) THEN {WholeMb(f.number, Unwrap(p.second.unit))}
      ELSE {}

SecondCandidate(p) ==
  IF IsSome(p.second.unit) THEN {WholeMb(p.second.number, Unwrap(p.second.unit))}
  ELSE {}

Candidates(p) == FirstCandidate(p) \cup SecondCandidate(p)

Least(S) == CHOOSE x \in S : \A y \in S : x <= y

IsPlainSize ==
  /\ IsSingle
  /\ IsSome(SizeOfParts.second.unit)
  /\ ~SizeOfParts.second.number.neg

\* n is num * factor / 10^scale rounded down
IsRoundedDownMb(n, number, unit) ==
  /\ n * TenTo(number.scale) <= number.num * MbPerUnit(unit)
  /\ (n + 1) * TenTo(number.scale) > number.num * MbPerUnit(unit)

HasNoUnit ==
  /\ SizeCalled /\ IsSome(size.parts)
  /\ ~IsSome(SizeOfParts.second.unit)
  /\ IsSome(SizeOfParts.first) => ~IsSome(Unwrap(SizeOfParts.first).unit)

HasNoSize ==
  /\ SizeCalled
  /\ \/ size.text = None
     \/ ~IsSome(size.parts)
     \/ HasNoUnit

\* C23: parse_size_to_mb always returns: None for a text that holds no
\* "<number> <MB|GB|TB>" ("invalid", the empty text) and for an absent text,
\* and None or one whole number for every other text.
C23_NoSizeGivesNone ==
  /\ HasNoSize => size.result = None
  /\ SizeCalled => (size.result = None \/ (Len(size.result) = 1 /\ size.result[1] \in Int))

C23_Witness ==
  /\ HasNoSize
  /\ size.text = Some(<<"i","n","v","a","l","i","d">>)
  /\ size.result = None

(***************************************************************************)
(* Detail extractor (SpecDetail).                                          *)
(***************************************************************************)
KnownLabels ==
  { <<"G","e","n","r","e","s","/","T","a","g","s",":">>, <<"C","o","m","p","a","n","i","e","s",":">>, <<"C","o","m","p","a","n","y",":">>, <<"L","a","n","g","u","a","g","e","s",":">>, <<"L","a","n","g","u","a","g","e",":">>,
    <<"O","r","i","g","i","n","a","l"," ","S","i","z","e",":">>, <<"R","e","p","a","c","k"," ","S","i","z","e",":">> }

DetailDone == detail.pc = "done" /\ Unwrap(detail.block).h3

ExtractedField(i) == Unwrap(detail.out)[FieldNames[i]]

HoldsALabel(text) == \E l \in KnownLabels : contains(text, l)

\* C24: no field that extract_game_details returns holds the text of a known
\* label.
C24_NoFieldHoldsALaterLabel ==
  DetailDone =>
    \A i \in 1..5 : IsSome(ExtractedField(i)) => ~HoldsALabel(Unwrap(ExtractedField(i)))

\* an info block without its "Companies:" line: the genres run on into the
\* languages line
C24_Witness ==
  /\ DetailDone
  /\ Unwrap(detail.block).fields = {1, 3, 4, 5}
  /\ IsSome(ExtractedField(1))
  /\ contains(Unwrap(ExtractedField(1)), <<"L","a","n","g","u","a","g","e","s",":">>)

\* in a block with all five lines every field but the last is the text of its
\* line, and so is the last when no text with "Download" and no long text
\* follows it
CompleteBlockIsExtractedExactly ==
  (DetailDone /\ Unwrap(detail.block).fields = 1..5) =>
    /\ \A i \in 1..4 : ExtractedField(i) = Some(ValueOf(Unwrap(detail.block), i))
    /\ (~Unwrap(detail.block).selective /\ Unwrap(detail.block).next # "note")
         => ExtractedField(5) = Some(ValueOf(Unwrap(detail.block), 5))

(***************************************************************************)
(* Screenshot resolver (SpecShots).                                        *)
(***************************************************************************)
\* fetch_screenshots has returned what it read from a page
ScreenshotsRead == shots.pc = "fetched" /\ IsSome(shots.html)

LinksRead == Unwrap(shots.html).links

ScreenshotsReturned == Unwrap(shots.urls).screenshots

\* the https form of the URL of the i-th variant
HttpsUrlAt(i) ==
  CASE i = 1 -> <<"h","t","t","p","s",":","/","/","r","p","/","1",".","j","p","g">> [] i = 2 -> <<"h","t","t","p","s",":","/","/","r","p","/","2",".","j","p","g">>
    [] i = 3 -> <<"h","t","t","p","s",":","/","/","r","p","/","3",".","j","p","g">> [] OTHER -> <<"h","t","t","p","s",":","/","/","r","p","/","n",".","j","p","g">>

HasOriginal(variants) == \E i \in 1..Len(variants) : variants[i].o = Some(1)

\* no variant has a larger byte size than the i-th
IsLargest(variants, i) ==
  \A j \in 1..Len(variants) :
    IsSome(variants[j].s) => (IsSome(variants[i].s) /\ Unwrap(variants[i].s) >= Unwrap(variants[j].s))

\* no variant has a smaller byte size than the i-th
IsSmallest(variants, i) ==
  \A j \in 1..Len(variants) :
    IsSome(variants[j].s) => (IsSome(variants[i].s) /\ Unwrap(variants[i].s) <= Unwrap(variants[j].s))

IsFullResolution(variants, i) ==
  IF HasOriginal(variants) THEN variants[i].o = Some(1) ELSE IsLargest(variants, i)

\* the screenshot is made of the right variants of the array
RightlySelected(screenshot, variants) ==
  /\ \E i \in 1..Len(variants) :
       /\ IsSome(variants[i].u)
       /\ screenshot.full_url = HttpsUrlAt(i)
       /\ IsFullResolution(variants, i)
  /\ \E i \in 1..Len(variants) :
       /\ IsSmallest(variants, i)
       /\ screenshot.thumbnail_url =
            IF IsSome(variants[i].u) THEN Some(HttpsUrlAt(i)) ELSE None

\* the page has one link, and that link holds an array
OneArrayRead ==
  /\ ScreenshotsRead
  /\ Len(LinksRead) = 1
  /\ IsSome(LinksRead[1].json)

\* C25: of the variants of a screenshot the full-resolution URL is that of the
\* variant with o = 1, or else of the variant with the largest byte size, and
\* the thumbnail URL is that of the variant with the smallest byte size; of
\* three sizes without a flag the largest and the smallest are taken.
C25_FullIsOriginalOrLargestThumbnailSmallest ==
  /\ OneArrayRead =>
       \A k \in 1..Len(ScreenshotsReturned) :
         RightlySelected(ScreenshotsReturned[k], Unwrap(LinksRead[1].json))
  /\ (OneArrayRead /\ Unwrap(LinksRead[1].json) = ThreeSizes) =>
       ScreenshotsReturned = << [full_url |-> HttpsUrlAt(2),
                                 thumbnail_url |-> Some(HttpsUrlAt(3))] >>

C25_Witness ==
  /\ OneArrayRead
  /\ Unwrap(LinksRead[1].json) = ThreeSizes
  /\ ScreenshotsReturned = << [full_url |-> <<"h","t","t","p","s",":","/","/","r","p","/","2",".","j","p","g">>,
                               thumbnail_url |-> Some(<<"h","t","t","p","s",":","/","/","r","p","/","3",".","j","p","g">>)] >>

\* curl did not give a page: it did not start, failed, or printed no UTF-8
CurlFailed(curl) == ~curl.spawned \/ ~curl.success \/ ~curl.utf8

\* the page holds the marker text of the challenge page
IsChallenge(curl) == curl.page.just_a_moment /\ curl.page.cloudflare

GalleryFetchFailed ==
  /\ IsSome(shots.curl)
  /\ CurlFailed(Unwrap(shots.curl)) \/ IsChallenge(Unwrap(shots.curl))

\* C26: when curl fails or the page it returns is the challenge page,
\* fetch_screenshots returns Ok with no screenshot, and crawl_single_game
\* returns Ok with its record, the record having no screenshots.
C26_FailedGalleryFetchIsSoft ==
  /\ (shots.pc = "fetched" /\ GalleryFetchFailed) =>
       (Unwrap(shots.urls).ok /\ Unwrap(shots.urls).screenshots = <<>>)
  /\ (shots.pc = "done" /\ GalleryFetchFailed) =>
       /\ Unwrap(shots.result).ok
       /\ IsSome(Unwrap(shots.result).repack)
       /\ Unwrap(Unwrap(shots.result).repack).screenshots = <<>>
       /\ \E page \in SinglePages :
            /\ Unwrap(Unwrap(shots.result).repack).title = page.title
            /\ Unwrap(Unwrap(shots.result).repack).url = page.url

C26_Witness ==
  /\ shots.pc = "done"
  /\ IsSome(shots.curl)
  /\ IsChallenge(Unwrap(shots.curl))
  /\ Unwrap(shots.result).ok
  /\ IsSome(Unwrap(shots.result).repack)
  /\ Unwrap(Unwrap(shots.result).repack).screenshots = <<>>

(***************************************************************************)
(* Popular lists (SpecPopular).                                            *)
(***************************************************************************)
\* the parser has returned a list
PopularParsed == popular.pc # "idle" /\ Unwrap(popular.out).ok

PopularEntries == Unwrap(popular.out).entries

\* the item has a link with a URL and a title
HasUrlAndTitle(item) ==
  /\ IsSome(item.link)
  /\ IsSome(Unwrap(item.link).href) /\ Unwrap(Unwrap(item.link).href) # <<>>
  /\ IsSome(Unwrap(item.link).title) /\ Unwrap(Unwrap(item.link).title) # <<>>

\* the items the parser is to read: those of the document, or the one item of
\* the other sidebar section
ItemsOnPage ==
  IF popular.parser = "parse_week_popular_repacks" /\ popular.layout = "today"
  THEN <<SidebarItem>>
  ELSE IF popular.parser = "parse_today_popular_repacks" /\ popular.layout = "week"
  THEN <<SidebarItem>>
  ELSE popular.items

\* the URL and title of the items with both, in the order of the page
WithUrlAndTitle(items) ==
  LET kept == SelectSeq(items, HasUrlAndTitle)
  IN  [i \in 1..Len(kept) |->
         [url |-> Unwrap(Unwrap(kept[i].link).href), title |-> Unwrap(Unwrap(kept[i].link).title)]]

UrlsAndTitles(entries) ==
  [i \in 1..Len(entries) |-> [url |-> entries[i].url, title |-> entries[i].title]]

\* C27: each parser of a popular list returns, in the order of the page, the
\* entries that have both a URL and a title and no other; the caller ranks
\* them 1, 2, ... in that order.
C27_EntriesWithUrlAndTitleInPageOrder ==
  /\ PopularParsed =>
       /\ UrlsAndTitles(PopularEntries) = WithUrlAndTitle(ItemsOnPage)
       /\ \A i \in 1..Len(PopularEntries) :
            PopularEntries[i].url # <<>> /\ PopularEntries[i].title # <<>>
  /\ (popular.pc = "done" /\ Unwrap(popular.out).ok) =>
       /\ Len(popular.ranked) = Len(PopularEntries)
       /\ \A i \in 1..Len(popular.ranked) :
            /\ popular.ranked[i].rank = i
            /\ popular.ranked[i].url = PopularEntries[i].url

\* the grid parser of fitgirl.rs returns an entry without a title
C27_Witness ==
  /\ PopularParsed
  /\ popular.parser = "fitgirl.rs fetch_popular_repacks"
  /\ \E i \in 1..Len(PopularEntries) : PopularEntries[i].title = <<>>

\* the three parsers of popular.rs return the entries with a URL and a title
\* in the order of the page
PopularRsParsersSkipIncompleteEntries ==
  (PopularParsed /\ popular.parser # "fitgirl.rs fetch_popular_repacks") =>
    /\ UrlsAndTitles(PopularEntries) = WithUrlAndTitle(ItemsOnPage)
    /\ popular.pc = "done" =>
         \A i \in 1..Len(popular.ranked) : popular.ranked[i].rank = i

(***************************************************************************)
(* update_database and the background check at the same time (SpecConc).   *)
(***************************************************************************)
\* the task p makes a call of the service in this step: it reads the latest
\* date, checks a URL, or saves its batch
ServiceCallBy(p) ==
  \/ conc.task[p].pc = "latest" /\ conc'.task[p].pc # "latest"
  \/ conc.task[p].pc = "check" /\ conc'.task[p].next = conc.task[p].next + 1
  \/ conc.task[p].pc = "save" /\ conc'.task[p].pc # "save"

\* a step changes the locals of one task at most, storage is written in the
\* calls of the service only, and a call of the service is made by the task
\* that holds the mutex, which it drops at the end of the call
UnderServiceMutex ==
  /\ \A p \in Tasks : \A q \in Tasks \ {p} :
       conc'.task[p] # conc.task[p] => conc'.task[q] = conc.task[q]
  /\ db' # db => \E p \in Tasks : ServiceCallBy(p)
  /\ \A p \in Tasks : ServiceCallBy(p) => conc.mutex = p /\ conc'.mutex = "free"

\* the URLs a save of either task has stored
StoredByTasks == UNION {conc.task[p].saved : p \in Tasks}

\* one repack row for each URL that was stored, none twice
OneRowPerStoredUrl ==
  /\ \A url \in StoredByTasks :
       Cardinality({row \in db.repacks : row.url = url}) = 1
  /\ \A r1 \in db.repacks : \A r2 \in db.repacks : r1.url = r2.url => r1 = r2

\* one magnet link per (repack, source)
OneMagnetPerRepackAndSource ==
  \A m1 \in db.magnet_links : \A m2 \in db.magnet_links :
    m1.repack_id = m2.repack_id /\ m1.source = m2.source => m1 = m2

RunsAlone(p) == \A q \in Tasks \ {p} : conc.task[q].pc = "idle"

\* the task p saves its batch in this step
SavesBatch(p) == conc.task[p].pc = "save" /\ conc'.task[p].pc # "save"

\* the row and the magnet links stored under url are the same after the step
RowAndLinksStay(url) ==
  \A row \in db.repacks :
    row.url = url =>
      /\ row \in db'.repacks
      /\ {m \in db'.magnet_links : m.repack_id = row.id} =
         {m \in db.magnet_links : m.repack_id = row.id}

\* no record whose URL the check reported as known is in the batch of new
\* records
KnownNeverPassedToSave ==
  \A p \in Tasks : \A i \in 1..Len(conc.task[p].new_repacks) :
    conc.task[p].new_repacks[i].url \notin conc.task[p].reported_known

\* C29 as stated: no record whose URL the check reported as known is passed
\* to the save step, and the save of an incremental run that runs alone
\* leaves the repack row and the magnet links of every URL storage knows as
\* they are.
C29_KnownUrlsLeftUnchanged ==
  /\ []KnownNeverPassedToSave
  /\ [][\A p \in Tasks : RunsAlone(p) /\ SavesBatch(p) =>
          \A row \in db.repacks : RowAndLinksStay(row.url)]_vars

\* C29 amended: no record whose URL the check reported as known is passed to
\* the save step, and the save of an incremental run leaves the repack rows
\* and the magnet links of those URLs as they are; the save of a run that
\* runs alone leaves those of every known URL as they are, except the URLs
\* for which the check failed.
C29_ReportedKnownUrlsLeftUnchanged ==
  /\ []KnownNeverPassedToSave
  /\ [][\A p \in Tasks : SavesBatch(p) =>
          /\ \A url \in conc.task[p].reported_known : RowAndLinksStay(url)
          /\ RunsAlone(p) =>
               \A row \in db.repacks :
                 row.url \notin conc.task[p].check_failed => RowAndLinksStay(row.url)]_vars

\* a run has saved a page of which one URL was reported as known and left out
\* of the batch, and storage holds the row of that URL with the data it had
C29_Witness ==
  \E p \in Tasks :
    /\ conc.task[p].pc = "fetch" /\ conc.task[p].current_page = 2
    /\ conc.task[p].saved = {<<"/","a","l","p","h","a","/">>}
    /\ conc.task[p].reported_known = {<<"/","b","e","t","a","/">>} /\ conc.task[p].check_failed = {}
    /\ RunsAlone(p)
    /\ db.repacks \ CrawledDb.repacks # {} /\ CrawledDb.repacks \subseteq db.repacks
    /\ CrawledDb.magnet_links \subseteq db.magnet_links

(***************************************************************************)
(* The category query cache after a save (SpecCat).                        *)
(***************************************************************************)
\* a cache entry is stale for a save when its games were read before the
\* commit of that save
StaleFor(e, commit) == e.read_at < commit

\* C30: once a save that stored at least one record has returned, no entry
\* of the category query cache was computed from the database as it was
\* before the commit of that save, in every interleaving of the saves and
\* the category query.
C30_NoEntryFromBeforeAReturnedSave ==
  \A e \in cat.cache : ~StaleFor(e, cat.returned)

\* one save has returned, the query has then cached what it read, and the
\* other save has committed and is about to clear the cache, which holds the
\* entry read before its commit
C30_Witness ==
  /\ cat.returned = 1 /\ cat.commits = 2
  /\ \E e \in cat.cache : e.read_at = 1 /\ Len(e.games) = 2
  /\ \E s \in Savers : cat.saver[s].pc = "clear" /\ cat.saver[s].commit = 2

=========================================================================
